---- MODULE Spec2Model ----
(***************************************************************************)
(* Claude-Cline bridge: the relay (claude-cline-bridge.js, printed in      *)
(* README.md), the two polling clients (ClaudeMCPClient, ClaudeBridgeTool) *)
(* and the Content-Length frame decoder of minimal-mcp-server.js.          *)
(*                                                                         *)
(* JavaScript values are modelled as strings; Undef stands for the value   *)
(* `undefined` and for a property that is absent from a JSON object.       *)
(***************************************************************************)
EXTENDS Integers, Sequences, FiniteSets

VARIABLES
    up,          \* the relay process answers requests
    messages,    \* README.md:68 `messages`: party -> queue of envelopes
    now,         \* the relay's clock (milliseconds, abstract)
    posted,      \* history: party -> the requests pushed to its queue (body, time)
    drained,     \* history: party -> every envelope returned by its drains
    response,    \* the relay's answer to the last request made from outside
    \* minimal-mcp-server.js (part_000:429-597)
    wire,        \* bytes written by sendMessage and not yet read as a chunk
    written,     \* history: the `content` strings sendMessage has written
    buffer,      \* part_000:446 `buffer`
    contentLength, \* part_000:447 `contentLength`
    frames,      \* history: every `message` the decode loop has extracted
    lastRun,     \* history: number of messages extracted by the last 'data' event
    stdout,      \* history: the messages the request dispatch gave to sendMessage
    timers,      \* part_000:486 setTimeout callbacks set and not yet run
    \* the two clients: "claude" is ClaudeMCPClient, "cline" is ClaudeBridgeTool
    connected,   \* client -> this.connected
    pollInterval, \* client -> this.pollInterval (0 is null, else a timer id)
    intervals,   \* client -> the ids of its setInterval poll timers still active
    probes,      \* client -> connectToServer runs: delayed / in flight / answered
    ticks,       \* client -> the poll tick bodies that have started and not ended
    unhandled,   \* client -> a promise of connectToServer was rejected, unobserved
    cleaned,     \* history: client -> cleanup() has been called on it
    calls,       \* the correlated calls made on the Claude client, in call order
    fileContentHandlers,   \* this.fileContentHandlers: key -> call whose closure it holds
    commandResultHandlers, \* this.commandResultHandlers: key -> call
    sends,       \* the sendMessage / sendFile / notifyFileChanged calls under way
                 \* and, in the slots no call under way has taken, the last
                 \* ones that ended
    messageHandlers, \* this.messageHandlers of the Claude client, in push order
    delivered,   \* history: the notifications given to Claude's handleMessage
    handled      \* history: the envelopes given to Claude's handleMessage by its
                 \* poll loop, as their positions in drained["claude"]

relayVars == <<up, messages, now, posted, drained, response>>
codecVars == <<wire, written, buffer, contentLength, frames, lastRun, stdout, timers>>
connVars == <<connected, pollInterval, intervals, probes, ticks, unhandled, cleaned>>
callVars == <<calls, fileContentHandlers, commandResultHandlers>>
observerVars == <<messageHandlers, delivered, handled>>
clientVars == <<connVars, callVars, sends, observerVars>>
vars == <<relayVars, codecVars, clientVars>>

----------------------------------------------------------------------------
(* Bounds of the model *)

MaxPosts == 2    \* requests the relay accepts for one mailbox
MaxNow == 1      \* the relay's clock stops advancing here
MaxFrames == 2   \* frames written to the byte stream
MaxLen == 1      \* characters of a string sent as a frame's message
MaxTicks == 2    \* bodies of one poll timer's callback in flight at a time
MaxChecks == 1   \* bodies of one checkInterval's callback in flight at a time
MaxCalls == 2    \* correlated calls made on the Claude client
MaxHandlers == 2 \* observers registered on the Claude client at a time
MaxSends == 2    \* sendMessage / sendFile / notifyFileChanged calls under way at a time
MaxReplies == 1  \* replies posted for Claude while its correlated calls are made

----------------------------------------------------------------------------
(* JavaScript values *)

Undef == "undefined"
JsTrue == "true"
JsFalse == "false"

\* message.f of a JSON object: undefined when the property is absent
Get(m, f) == IF f \in DOMAIN m THEN m[f] ELSE Undef

Falsy(x) == x \in {Undef, "", JsFalse}

\* a || b
Or(a, b) == IF Falsy(a) THEN b ELSE a

Parties == {"claude", "cline"}

\* Arguments of getFile / updateFile / executeCommand: a path or command, or
\* no argument at all
Keys == {"a.txt", Undef}

----------------------------------------------------------------------------
(* The relay: README.md lines 44-174 *)

\* An envelope that keeps the timestamp the sender supplied
EnvelopeSenderStamp(body, ts) ==
    [content |-> Get(body, "content"),
     type |-> Or(Get(body, "type"), "text"),
     timestamp |-> IF "timestamp" \in DOMAIN body THEN body.timestamp ELSE ts]

\* The record built by both POST handlers: content, type and the relay's own
\* timestamp; no other property of the request body is copied.
Envelope(body, ts) ==
    [content |-> Get(body, "content"),
     type |-> Or(Get(body, "type"), "text"),
     timestamp |-> ts]

\* messages.<to>.push(message)
Push(queue, message) == Append(queue, message)

\* The clock read by `new Date()`
Clock == {now}

Enqueue(to, body, ts) ==
    /\ Len(posted[to]) < MaxPosts
    /\ now' = now
    /\ messages' = [messages EXCEPT ![to] = Push(@, Envelope(body, ts))]
    /\ posted' = [posted EXCEPT ![to] = Append(@, [body |-> body, ts |-> ts])]

\* const pending = [...messages.x]; messages.x = []
Pending(queue) == queue
NotCleared(queue) == queue
Cleared(queue) == << >>

Drain(party) ==
    /\ messages' = [messages EXCEPT ![party] = Cleared(@)]
    /\ drained' = [drained EXCEPT ![party] = @ \o Pending(messages[party])]

\* The values of req.query.client: a party, none, or another name
PingClients == Parties \cup {Undef, "other"}

\* A ping that counts the mailbox of the other party
PingBodyOther(client) ==
    IF client \notin Parties
    THEN [success |-> JsFalse, message |-> "Invalid client"]
    ELSE LET other == CHOOSE p \in Parties : p # client
         IN [success |-> JsTrue,
             messageCount |-> Len(messages[other]),
             hasUpdates |-> IF Len(messages[other]) > 0 THEN JsTrue ELSE JsFalse]

\* GET /ping
PingBody(client) ==
    IF client \notin Parties
    THEN [success |-> JsFalse, message |-> "Invalid client"]
    ELSE [success |-> JsTrue,
          messageCount |-> Len(messages[client]),
          hasUpdates |-> IF Len(messages[client]) > 0 THEN JsTrue ELSE JsFalse]

\* Request bodies a party (or any other HTTP client) can post; one carries a
\* timestamp of the sender's own
RelayBodies ==
    {[content |-> "hi"],
     [content |-> "hi", timestamp |-> 5],
     [type |-> "fileContent", path |-> "a.txt", content |-> "data"],
     [type |-> "fileContent", path |-> "a.txt", error |-> "ENOENT"]}

PostClaudeMessage(body) ==
    /\ up
    /\ \E ts \in Clock : Enqueue("cline", body, ts)
    /\ response' = [route |-> "POST /claude/message", status |-> 200,
                    body |-> [success |-> JsTrue]]
    /\ UNCHANGED <<up, drained, codecVars, clientVars>>

PostClineMessage(body) ==
    /\ up
    /\ \E ts \in Clock : Enqueue("claude", body, ts)
    /\ response' = [route |-> "POST /cline/message", status |-> 200,
                    body |-> [success |-> JsTrue]]
    /\ UNCHANGED <<up, drained, codecVars, clientVars>>

GetClaudeMessages ==
    /\ up
    /\ Drain("claude")
    /\ response' = [route |-> "GET /claude/messages", status |-> 200,
                    body |-> Pending(messages["claude"])]
    /\ UNCHANGED <<up, now, posted, codecVars, clientVars>>

GetClineMessages ==
    /\ up
    /\ Drain("cline")
    /\ response' = [route |-> "GET /cline/messages", status |-> 200,
                    body |-> Pending(messages["cline"])]
    /\ UNCHANGED <<up, now, posted, codecVars, clientVars>>

GetPing(client) ==
    /\ up
    /\ response' = [route |-> "GET /ping",
                    status |-> IF client \in Parties THEN 200 ELSE 400,
                    body |-> PingBody(client)]
    /\ UNCHANGED <<up, messages, now, posted, drained, codecVars, clientVars>>

NullLength == -1    \* `contentLength = null` (part_000:447)

InitCodec ==
    /\ wire = << >>
    /\ written = << >>
    /\ buffer = << >>
    /\ contentLength = NullLength
    /\ frames = << >>
    /\ lastRun = 0
    /\ stdout = << >>
    /\ timers = 0

\* Time passes at the relay
ClockTick ==
    /\ now < MaxNow
    /\ now' = now + 1
    /\ UNCHANGED <<up, messages, posted, drained, response, codecVars, clientVars>>

InitRelayVars ==
    /\ up = TRUE
    /\ messages = [p \in Parties |-> << >>]
    /\ now = 0
    /\ posted = [p \in Parties |-> << >>]
    /\ drained = [p \in Parties |-> << >>]
    /\ response = [route |-> "none", status |-> 0, body |-> [answered |-> JsFalse]]


NextRelay ==
    \/ \E body \in RelayBodies : PostClaudeMessage(body)
    \/ \E body \in RelayBodies : PostClineMessage(body)
    \/ GetClaudeMessages
    \/ GetClineMessages
    \/ \E client \in PingClients : GetPing(client)
    \/ ClockTick


----------------------------------------------------------------------------
(* The frame codec of minimal-mcp-server.js: part_000 lines 438-465.        *)
(* A string is a sequence of characters, the byte stream a sequence of      *)
(* bytes. An ASCII character and its byte are written alike; EAcute is a    *)
(* character of two UTF-8 bytes.                                            *)

EAcute == "U+00E9"
Replacement == "U+FFFD"

HeaderName ==
    <<"C", "o", "n", "t", "e", "n", "t", "-", "L", "e", "n", "g", "t", "h", ":", " ">>
CRLFCRLF == <<"\r", "\n", "\r", "\n">>
Digits == <<"0", "1", "2", "3", "4", "5", "6", "7", "8", "9">>

IsDigit(c) == \E i \in 1..10 : Digits[i] = c
DigitVal(c) == (CHOOSE i \in 1..10 : Digits[i] = c) - 1

\* `${contentLength}`: the decimal text of a number
RECURSIVE Decimal(_)
Decimal(n) ==
    IF n < 10 THEN <<Digits[n + 1]>>
    ELSE Decimal(n \div 10) \o <<Digits[(n % 10) + 1]>>

\* parseInt(text, 10) of a text of digits
RECURSIVE ParseInt(_)
ParseInt(ds) ==
    IF ds = << >> THEN 0
    ELSE ParseInt(SubSeq(ds, 1, Len(ds) - 1)) * 10 + DigitVal(ds[Len(ds)])

\* The UTF-8 bytes of a string, as stdout.write produces them: the bytes of
\* its characters, one after the other
RECURSIVE Utf8(_)
Utf8(str) ==
    IF Len(str) = 0 THEN << >>
    ELSE IF Len(str) = 1
    THEN (IF str[1] = EAcute THEN <<"C3", "A9">> ELSE str)
    ELSE LET half == Len(str) \div 2
         IN Utf8(SubSeq(str, 1, half)) \o Utf8(SubSeq(str, half + 1, Len(str)))

\* Buffer.byteLength(content, 'utf8')
ByteLength(str) == Len(Utf8(str))

\* chunk.toString(): each chunk is decoded on its own, so the two bytes of a
\* character split over two chunks become two replacement characters. A lead
\* byte followed by its continuation byte is one character, written at the
\* lead byte; a lead byte or a continuation byte alone is a replacement.
ToString(bytes) ==
    LET Continuation == ""
        Decoded(i) ==
            IF bytes[i] = "C3"
            THEN IF i < Len(bytes) /\ bytes[i + 1] = "A9"
                 THEN EAcute ELSE Replacement
            ELSE IF bytes[i] = "A9"
            THEN IF i > 1 /\ bytes[i - 1] = "C3"
                 THEN Continuation ELSE Replacement
            ELSE bytes[i]
        Kept(c) == c # Continuation
    IN SelectSeq([i \in 1..Len(bytes) |-> Decoded(i)], Kept)

\* str.substring(from) and str.substring(0, to), clamped as JavaScript does
SubstringFrom(str, from) ==
    IF from >= Len(str) THEN << >> ELSE SubSeq(str, from + 1, Len(str))
SubstringTo(str, to) ==
    IF to >= Len(str) THEN str ELSE SubSeq(str, 1, to)

\* JSON.stringify of a string without characters that need escaping
Stringify(message) == <<"\"">> \o message \o <<"\"">>

\* The strings sent as messages: up to MaxLen characters
Chars == {"a", EAcute}
Strings == UNION {[1..n -> Chars] : n \in 0..MaxLen}

\* What sendMessage writes to stdout for `content`
Frame(content) ==
    Utf8(HeaderName \o Decimal(ByteLength(content)) \o CRLFCRLF \o content)

\* Number of consecutive digits of str from position j on
RECURSIVE DigitRun(_, _)
DigitRun(str, j) ==
    IF j <= Len(str) /\ IsDigit(str[j]) THEN 1 + DigitRun(str, j + 1) ELSE 0

\* Length of the text /Content-Length: (\d+)\r\n\r\n/ matches at position i of
\* str, 0 when it does not match there
MatchLengthAt(str, i) ==
    LET n == DigitRun(str, i + 16)
    IN IF /\ i + 15 <= Len(str)
          /\ SubSeq(str, i, i + 15) = HeaderName
          /\ n >= 1
          /\ i + 19 + n <= Len(str)
          /\ SubSeq(str, i + 16 + n, i + 19 + n) = CRLFCRLF
       THEN 20 + n
       ELSE 0

\* buffer.match(...): the leftmost match, anywhere in the buffer
Match(str) ==
    LET at == {i \in 1..Len(str) : MatchLengthAt(str, i) > 0}
    IN IF at = {} THEN [found |-> FALSE, length |-> 0, digits |-> << >>]
       ELSE LET i == CHOOSE j \in at : \A k \in at : j <= k
            IN [found |-> TRUE,
                length |-> MatchLengthAt(str, i),
                digits |-> SubSeq(str, i + 16, i + MatchLengthAt(str, i) - 5)]

\* The while loop of the 'data' handler, lines 452-465; out collects every
\* `message` it extracts.
RECURSIVE DecodeLoop(_, _, _)
DecodeLoop(buf, len, out) ==
    IF Len(buf) = 0 THEN [buffer |-> buf, contentLength |-> len, out |-> out]
    ELSE LET m == Match(buf)
             headerRead == len = NullLength /\ m.found
             len1 == IF headerRead THEN ParseInt(m.digits) ELSE len
             buf1 == IF headerRead THEN SubstringFrom(buf, m.length) ELSE buf
         IN IF len = NullLength /\ ~m.found
            THEN [buffer |-> buf, contentLength |-> len, out |-> out]
            ELSE IF Len(buf1) < len1
            THEN [buffer |-> buf1, contentLength |-> len1, out |-> out]
            ELSE DecodeLoop(SubstringFrom(buf1, len1), NullLength,
                            Append(out, SubstringTo(buf1, len1)))

\* The method name read when the two bytes of EAcute arrive in two chunks:
\* chunk.toString() turns each of them into a replacement character
Replaced == "U+FFFDU+FFFD"

\* The characters of the strings that occur in requests
Text(s) ==
    CASE s = "id" -> <<"i", "d">>
      [] s = "method" -> <<"m", "e", "t", "h", "o", "d">>
      [] s = "params" -> <<"p", "a", "r", "a", "m", "s">>
      [] s = "name" -> <<"n", "a", "m", "e">>
      [] s = "arguments" -> <<"a", "r", "g", "u", "m", "e", "n", "t", "s">>
      [] s = "content" -> <<"c", "o", "n", "t", "e", "n", "t">>
      [] s = "initialize" -> <<"i", "n", "i", "t", "i", "a", "l", "i", "z", "e">>
      [] s = "list_tools" -> <<"l", "i", "s", "t", "_", "t", "o", "o", "l", "s">>
      [] s = "call_tool" -> <<"c", "a", "l", "l", "_", "t", "o", "o", "l">>
      [] s = "send_message" -> <<"s", "e", "n", "d", "_", "m", "e", "s", "s", "a", "g", "e">>
      [] s = "read_messages" -> <<"r", "e", "a", "d", "_", "m", "e", "s", "s", "a", "g", "e", "s">>
      [] s = "x" -> <<"x">>
      [] s = "a" -> <<"a">>
      [] s = EAcute -> <<EAcute>>
      [] s = Replaced -> <<Replacement, Replacement>>

\* The requests the peer sends, before it numbers them: the three methods the
\* server names, call_tool with and without its parameters, and two methods
\* it does not name.
Shapes ==
    {[method |-> "initialize"],
     [method |-> "list_tools"],
     [method |-> "call_tool",
      params |-> [name |-> "send_message", arguments |-> [content |-> "a"]]],
     [method |-> "call_tool", params |-> [name |-> "read_messages"]],
     [method |-> "call_tool", params |-> [name |-> "x"]],
     [method |-> "call_tool", params |-> [name |-> "send_message"]],
     [method |-> "call_tool"],
     [method |-> "x"],
     [method |-> EAcute]}

WithId(shape, id) ==
    IF "params" \in DOMAIN shape
    THEN [id |-> id, method |-> shape.method, params |-> shape.params]
    ELSE [id |-> id, method |-> shape.method]

Requests == {WithId(shape, id) : shape \in Shapes, id \in 1..MaxFrames}

\* The requests JSON.parse can read from what toString made of the bytes
Readable ==
    {WithId(shape, id) : shape \in Shapes \cup {[method |-> Replaced]},
                         id \in 1..MaxFrames}

\* JSON text of "key":
Key(s) == Stringify(Text(s)) \o <<":">>

\* JSON.stringify of the objects above, properties in the order written
ArgumentsText(args) ==
    <<"{">> \o Key("content") \o Stringify(Text(args.content)) \o <<"}">>
ParamsText(params) ==
    <<"{">> \o Key("name") \o Stringify(Text(params.name))
    \o (IF "arguments" \in DOMAIN params
        THEN <<",">> \o Key("arguments") \o ArgumentsText(params.arguments)
        ELSE << >>)
    \o <<"}">>
RequestText(request) ==
    <<"{">> \o Key("id") \o Decimal(request.id)
    \o <<",">> \o Key("method") \o Stringify(Text(request.method))
    \o (IF "params" \in DOMAIN request
        THEN <<",">> \o Key("params") \o ParamsText(request.params)
        ELSE << >>)
    \o <<"}">>

\* The white space JSON.parse skips before and after a JSON text
JsonWhitespace == {" ", "\t", "\n", "\r"}

\* The message without the white space at its two ends
TrimWhitespace(message) ==
    LET solid == {i \in 1..Len(message) : message[i] \notin JsonWhitespace}
        ends == {1, Len(message)} \cap DOMAIN message
    IN IF \A i \in ends : message[i] \notin JsonWhitespace THEN message
       ELSE IF solid = {} THEN << >>
       ELSE SubSeq(message,
                   CHOOSE i \in solid : \A j \in solid : i <= j,
                   CHOOSE i \in solid : \A j \in solid : j <= i)

\* The text is a JSON string without escapes: no quote, backslash or control
\* character between its quotes
IsStringText(message) ==
    /\ Len(message) >= 2
    /\ message[1] = "\""
    /\ message[Len(message)] = "\""
    /\ \A i \in 2..(Len(message) - 1) :
          message[i] \notin {"\"", "\\", "\t", "\n", "\r"}

\* The text of every request the peer can send or the server can read
RequestTexts == [request \in Readable |-> RequestText(request)]

\* JSON.parse(message), line 468: white space around the text is skipped; the
\* request whose text the message is; a JSON string has neither id nor method;
\* any other text met here (a text cut short, or with other characters before
\* or after it) is a SyntaxError.
Parse(message) ==
    LET text == TrimWhitespace(message)
        parsed == {request \in Readable : RequestTexts[request] = text}
    IN IF parsed # {}
       THEN [threw |-> FALSE, request |-> CHOOSE request \in parsed : TRUE]
       ELSE IF IsStringText(text)
       THEN [threw |-> FALSE, request |-> [string |-> message]]
       ELSE [threw |-> TRUE, request |-> [string |-> << >>]]

MethodNotSupported == -32601
Tools == <<"send_message", "read_messages">>

\* The messages given to sendMessage; JSON.stringify leaves out a property
\* whose value is undefined, so a request without id gets an answer without.
Answer(request, field, value) ==
    [f \in {"jsonrpc", field} \cup (IF "id" \in DOMAIN request THEN {"id"} ELSE {}) |->
        IF f = "jsonrpc" THEN "2.0" ELSE IF f = "id" THEN request.id ELSE value]
InitializeResult(request) ==
    Answer(request, "result",
           [serverInfo |-> [name |-> "minimal-mcp", version |-> "1.0.0"],
            capabilities |-> "{}"])
ToolsNotification ==
    [jsonrpc |-> "2.0", method |-> "notifications/tools", params |-> [tools |-> Tools]]
ListToolsResult(request) ==
    Answer(request, "result", [tools |-> Tools])
ToolResult(request, text) ==
    Answer(request, "result", [content |-> <<[type |-> "text", text |-> text]>>])
MethodError(request) ==
    Answer(request, "error",
           [code |-> MethodNotSupported,
            message |-> <<"Method not supported: ", Get(request, "method")>>])

\* The try block of lines 467-593 for one extracted message: the messages it
\* gives to sendMessage. A TypeError (params or arguments missing) and a
\* SyntaxError end in the catch, which logs.
Dispatch(message) ==
    LET parsed == Parse(message)
        request == parsed.request
        method == Get(request, "method")
    IN IF parsed.threw THEN << >>
       ELSE IF method = "initialize" THEN <<InitializeResult(request)>>
       ELSE IF method = "list_tools" THEN <<ListToolsResult(request)>>
       ELSE IF method = "call_tool"
       THEN IF "params" \notin DOMAIN request THEN << >>
            ELSE IF request.params.name = "send_message"
            THEN IF "arguments" \notin DOMAIN request.params THEN << >>
                 ELSE <<ToolResult(request, "Message sent successfully")>>
            ELSE IF request.params.name = "read_messages"
            THEN <<ToolResult(request, "No messages available")>>
            ELSE << >>
       ELSE <<MethodError(request)>>

\* setTimeout of line 486: set by an initialize request
SetsTimer(message) ==
    LET parsed == Parse(message)
    IN ~parsed.threw /\ Get(parsed.request, "method") = "initialize"

\* The messages sent, and the timers set, for the messages one 'data' event
\* extracts, in their order
RECURSIVE DispatchAll(_)
DispatchAll(out) ==
    IF out = << >> THEN << >>
    ELSE Dispatch(Head(out)) \o DispatchAll(Tail(out))
RECURSIVE TimersSet(_)
TimersSet(out) ==
    IF out = << >> THEN 0
    ELSE (IF SetsTimer(Head(out)) THEN 1 ELSE 0) + TimersSet(Tail(out))


\* sendMessage(message), lines 438-443
SendMessage(message) ==
    /\ Len(written) < MaxFrames
    /\ wire' = wire \o Frame(Stringify(message))
    /\ written' = Append(written, Stringify(message))
    /\ UNCHANGED <<buffer, contentLength, frames, lastRun, stdout, timers,
                   relayVars, clientVars>>

\* A request reaches stdin, framed by the peer as sendMessage frames a
\* message; the peer numbers its requests 1, 2, ...
Receive(shape) ==
    /\ Len(written) < MaxFrames
    /\ LET content == RequestText(WithId(shape, Len(written) + 1))
       IN /\ wire' = wire \o Frame(content)
          /\ written' = Append(written, content)
    /\ UNCHANGED <<buffer, contentLength, frames, lastRun, stdout, timers,
                   relayVars, clientVars>>

\* A line break that belongs to no frame reaches stdin while the decoder holds
\* nothing, as from a peer that ends its frames with one
Stray ==
    /\ Len(written) < MaxFrames
    /\ wire = << >>
    /\ buffer = << >>
    /\ wire' = <<"\n">>
    /\ UNCHANGED <<written, buffer, contentLength, frames, lastRun, stdout, timers,
                   relayVars, clientVars>>

\* The callback of setTimeout(..., 100) set by an initialize request
ToolsTimeout ==
    /\ timers > 0
    /\ timers' = timers - 1
    /\ stdout' = Append(stdout, ToolsNotification)
    /\ UNCHANGED <<wire, written, buffer, contentLength, frames, lastRun,
                   relayVars, clientVars>>

\* process.stdin.on('data', chunk => ...) for a chunk of the next n bytes
OnData(n) ==
    /\ n \in 1..Len(wire)
    /\ LET chunk == SubSeq(wire, 1, n)
           run == DecodeLoop(buffer \o ToString(chunk), contentLength, << >>)
       IN /\ buffer' = run.buffer
          /\ contentLength' = run.contentLength
          /\ frames' = frames \o run.out
          /\ lastRun' = Len(run.out)
          /\ stdout' = stdout \o DispatchAll(run.out)
          /\ timers' = timers + TimersSet(run.out)
    /\ wire' = SubSeq(wire, n + 1, Len(wire))
    /\ UNCHANGED <<written, relayVars, clientVars>>

\* A 'data' event delivers any non-empty prefix of the pending bytes
StdinData == \E n \in 1..Len(wire) : OnData(n)


NextCodec ==
    \/ \E message \in Strings : SendMessage(message)
    \/ StdinData

\* The frames of sendMessage with line breaks between them
NextStray ==
    \/ \E message \in Strings : SendMessage(message)
    \/ StdinData
    \/ Stray

\* The byte-stream server and a peer that writes requests to its stdin
NextServer ==
    \/ \E shape \in Shapes : Receive(shape)
    \/ StdinData
    \/ ToolsTimeout


----------------------------------------------------------------------------
(* ClaudeMCPClient: the correlated calls, part_000 lines 135-348 *)

NotConnectedError == "Not connected to bridge server"
NetworkError == "request to http://localhost:2612 failed"
FileTimeoutError == "Timeout waiting for file content"
UpdateTimeoutError == "Timeout waiting for file update confirmation"
CommandTimeoutError == "Timeout waiting for command result"
UpdateFailedError == "Failed to update file"
FileDataValue == "data"
CommandOutputValue == "output"
CollaboratorError == "EACCES: permission denied"

\* `File ${path} updated successfully`, line 285
UpdatedMessage(path) ==
    IF path = Undef THEN "File undefined updated successfully"
    ELSE "File a.txt updated successfully"

Methods == {"getFile", "updateFile", "executeCommand"}

\* `Failed to ...: ${response.statusText}` for the 404 of a route the relay lacks
RequestFailedError(method) ==
    CASE method = "getFile" -> "Failed to request file: Not Found"
      [] method = "updateFile" -> "Failed to update file: Not Found"
      [] method = "executeCommand" -> "Failed to execute command: Not Found"

TimeoutError(method) ==
    CASE method = "getFile" -> FileTimeoutError
      [] method = "updateFile" -> UpdateTimeoutError
      [] method = "executeCommand" -> CommandTimeoutError

\* The check bodies of an updateFile call in flight: waiting for the answer to
\* their ping, answered with (found) and without (over) pending messages or
\* with a failure (over) and not yet gone on, waiting for the answer to their
\* drain, and the answers to their drains they have not yet gone on with
NoChecks == [ping |-> 0, found |-> 0, over |-> 0, drain |-> 0, got |-> << >>]

\* The check bodies of a call that have started and not ended
ChecksRunning(call) ==
    call.checking.ping + call.checking.found + call.checking.over
        + call.checking.drain + Len(call.checking.got)

\* A call that has just been made: its promise is pending
NewCall(method, key) ==
    [method |-> method, key |-> key,
     state |-> "requesting",   \* requesting, waiting, resolved or rejected
     answer |-> "none",        \* what its POST /mcp/invoke got, before the method
                               \* goes on: none yet, ok, notfound or refused
     value |-> Undef,          \* the value it resolved with (content / output / message)
     success |-> Undef,        \* the success property of the value it resolved with
     error |-> Undef,          \* the message of the Error it rejected with
     sent |-> FALSE,           \* history: its POST /mcp/invoke was issued
     registered |-> FALSE,     \* history: it got as far as its new Promise(...)
     since |-> 0,              \* history: envelopes enqueued for Claude before its
                               \* request was issued, then before it waited
     settledAt |-> 0,          \* history: envelopes handleMessage had got when it settled
     timer |-> FALSE,          \* its setTimeout is pending
     checker |-> FALSE,        \* updateFile: its setInterval (checkInterval) is active
     checking |-> NoChecks]    \* updateFile: check bodies in flight

\* resolve(...) / reject(...) of the call's promise: a settled promise stays as it is
Resolve(call, value, success) ==
    IF call.state = "waiting"
    THEN [call EXCEPT !.state = "resolved", !.value = value, !.success = success,
                      !.settledAt = Len(handled)]
    ELSE call

Reject(call, error) ==
    IF call.state \in {"requesting", "waiting"}
    THEN [call EXCEPT !.state = "rejected", !.error = error,
                      !.settledAt = Len(handled)]
    ELSE call

\* A lookup that falls back to any entry of the map when the key has none
LookupAny(map, key) ==
    IF key \in DOMAIN map /\ map[key] # 0 THEN map[key]
    ELSE IF \E k \in DOMAIN map : map[k] # 0
    THEN map[CHOOSE k \in DOMAIN map : map[k] # 0]
    ELSE 0

\* map.get(key): 0 when the map has no entry for the key
Lookup(map, key) == IF key \in DOMAIN map THEN map[key] ELSE 0

\* map.set(key, handler): the entry of the key is now the closure of call i
Set(map, key, i) == [map EXCEPT ![key] = i]

\* map.delete(key)
Delete(map, key) == IF key \in DOMAIN map THEN [map EXCEPT ![key] = 0] ELSE map

\* The closure registered by getFile, lines 219-226: (content, error) => ...
FileHandler(call, content, error) ==
    IF ~Falsy(error)
    THEN Reject([call EXCEPT !.timer = FALSE], error)
    ELSE Resolve([call EXCEPT !.timer = FALSE], content, Undef)

\* The closure registered by executeCommand, lines 335-342:
\* (output, error, success) => ...
CommandHandler(call, output, error, success) ==
    IF ~Falsy(error)
    THEN Reject([call EXCEPT !.timer = FALSE], error)
    ELSE Resolve([call EXCEPT !.timer = FALSE], output, Or(success, JsTrue))

\* The types of the envelopes that only notify: what sendMessage posts
\* ('text'), what notifyFileChanged posts, and the type handleMessage passes on
NotificationTypes == {"text", "fileChanged", "message"}

\* `File changed: ${message.path}`, line 159
FileChangedText(path) ==
    IF path = Undef THEN "File changed: undefined" ELSE "File changed: a.txt"

\* The cases of handleMessage's switch that call this.messageHandlers.forEach
\* for one envelope (lines 154-161, 172-175); the switch has no case 'text'
ObserverTypes == {"fileChanged", "message"}

\* What one notification did: the observers registered when it was handled,
\* and the calls of observers the switch made for it, in order
Fanout(registered, message) ==
    [type |-> message.type,
     registered |-> registered,
     calls |-> IF message.type \in ObserverTypes
               THEN [n \in 1..Len(registered) |->
                       [handler |-> registered[n],
                        content |-> IF message.type = "fileChanged"
                                    THEN FileChangedText(Get(message, "path"))
                                    ELSE Get(message, "content"),
                        from |-> IF message.type = "fileChanged" THEN "system"
                                 ELSE Get(message, "from")]]
               ELSE << >>]

\* case 'messages', lines 177-182: every observer is called for every message
\* of the batch, in the order of the batch
RECURSIVE BatchCalls(_, _)
BatchCalls(registered, batch) ==
    IF batch = << >> THEN << >>
    ELSE [n \in 1..Len(registered) |->
            [handler |-> registered[n],
             content |-> Get(Head(batch), "content"),
             from |-> Get(Head(batch), "from")]]
         \o BatchCalls(registered, Tail(batch))

BatchFanout(registered, message) ==
    [type |-> message.type,
     registered |-> registered,
     calls |-> BatchCalls(registered, message.messages)]

\* handleMessage(message), lines 135-184, on st = the client's calls and maps;
\* threw: message.messages.forEach of an envelope of type 'messages' without
\* that property is a TypeError
HandleMessage(st, message) ==
    LET type == message.type
        fileHandler == Lookup(st.fileContentHandlers, Get(message, "path"))
        cmdHandler == Lookup(st.commandResultHandlers, Get(message, "command"))
    IN IF type = "fileContent" /\ fileHandler # 0
       THEN [st EXCEPT
               !.calls[fileHandler] =
                   FileHandler(@, Get(message, "content"), Get(message, "error")),
               !.fileContentHandlers = Delete(@, Get(message, "path"))]
       ELSE IF type = "commandResult" /\ cmdHandler # 0
       THEN [st EXCEPT
               !.calls[cmdHandler] =
                   CommandHandler(@, Get(message, "output"), Get(message, "error"),
                                  Get(message, "success")),
               !.commandResultHandlers = Delete(@, Get(message, "command"))]
       ELSE IF type \in NotificationTypes
       THEN [st EXCEPT !.delivered = Append(@, Fanout(st.messageHandlers, message))]
       ELSE IF type = "messages"
       THEN IF "messages" \in DOMAIN message
            THEN [st EXCEPT !.delivered =
                               Append(@, BatchFanout(st.messageHandlers, message))]
            ELSE [st EXCEPT !.threw = TRUE]
       ELSE st

\* messages.forEach(message => this.handleMessage(message)), line 106: an
\* error thrown by handleMessage ends the forEach; count is the number of
\* messages handleMessage was called with
RECURSIVE HandleAll(_, _)
HandleAll(st, batch) ==
    IF batch = << >> \/ st.threw THEN st
    ELSE HandleAll([HandleMessage(st, Head(batch)) EXCEPT !.count = @ + 1],
                   Tail(batch))

ClientState ==
    [calls |-> calls,
     fileContentHandlers |-> fileContentHandlers,
     commandResultHandlers |-> commandResultHandlers,
     messageHandlers |-> messageHandlers,
     delivered |-> delivered,
     count |-> 0,
     threw |-> FALSE]

\* The positions, in the order of the relay's drains, of the first count
\* envelopes of a batch drained after from others
Positions(from, count) == [n \in 1..count |-> from + n]

SetClientState(st, from) ==
    /\ calls' = st.calls
    /\ fileContentHandlers' = st.fileContentHandlers
    /\ commandResultHandlers' = st.commandResultHandlers
    /\ delivered' = st.delivered
    /\ handled' = handled \o Positions(from, st.count)

\* The maps and the other relay and client variables a call step leaves alone
CallFrame == UNCHANGED <<relayVars, codecVars, connVars, sends, observerVars>>

\* A call that goes on to its request without the connected check
StartCallUnchecked(method, key) ==
    /\ Len(calls) < MaxCalls
    /\ calls' = Append(calls,
                  [NewCall(method, key) EXCEPT !.sent = TRUE,
                                               !.since = Len(posted["claude"])])
    /\ UNCHANGED <<fileContentHandlers, commandResultHandlers>>
    /\ CallFrame

\* getFile / updateFile / executeCommand up to the first await: the connected
\* check and the issue of POST /mcp/invoke (lines 187-204, 235-252, 303-320)
StartCall(method, key) ==
    /\ Len(calls) < MaxCalls
    /\ calls' = Append(calls,
                  IF connected["claude"]
                  THEN [NewCall(method, key) EXCEPT !.sent = TRUE,
                                               !.since = Len(posted["claude"])]
                  ELSE Reject(NewCall(method, key), NotConnectedError))
    /\ UNCHANGED <<fileContentHandlers, commandResultHandlers>>
    /\ CallFrame

GetFile(path) == StartCall("getFile", path)
UpdateFile(path) == StartCall("updateFile", path)
ExecuteCommand(command) == StartCall("executeCommand", command)

\* new Promise(...) of the three methods: the timer, and the map entry or the
\* checkInterval (lines 211-227, 259-295, 327-343)
Register(call) ==
    [call EXCEPT !.state = "waiting", !.timer = TRUE,
                 !.checker = (call.method = "updateFile"),
                 !.registered = TRUE,
                 !.since = Len(posted["claude"])]

\* POST /mcp/invoke is answered or refused. The relay of README.md has no such
\* route and answers 404 (ok is false); a bridge that has the route answers 200.
InvokeAnswer(i, ok) ==
    /\ i \in 1..Len(calls)
    /\ calls[i].state = "requesting"
    /\ calls[i].answer = "none"
    /\ calls' = [calls EXCEPT ![i].answer =
                   IF ~up THEN "refused" ELSE IF ok THEN "ok" ELSE "notfound"]
    /\ UNCHANGED <<fileContentHandlers, commandResultHandlers>>
    /\ CallFrame

\* The method goes on after await fetch with what its request got: the error
\* of the refused request, the error for a response that is not ok, or the
\* new Promise (lines 194-227, 241-295, 309-343)
InvokeResponse(i) ==
    /\ i \in 1..Len(calls)
    /\ calls[i].state = "requesting"
    /\ calls[i].answer # "none"
    /\ LET call == [calls[i] EXCEPT !.answer = "none"]
           accepted == calls[i].answer = "ok"
       IN /\ calls' = [calls EXCEPT ![i] =
                         IF calls[i].answer = "refused" THEN Reject(call, NetworkError)
                         ELSE IF ~accepted
                         THEN Reject(call, RequestFailedError(call.method))
                         ELSE Register(call)]
          /\ fileContentHandlers' =
                IF accepted /\ call.method = "getFile"
                THEN Set(fileContentHandlers, call.key, i)
                ELSE fileContentHandlers
          /\ commandResultHandlers' =
                IF accepted /\ call.method = "executeCommand"
                THEN Set(commandResultHandlers, call.key, i)
                ELSE commandResultHandlers
    /\ CallFrame

\* The setTimeout callback of call i runs (lines 213-216, 261-263, 329-332)
TimeoutFire(i) ==
    /\ i \in 1..Len(calls)
    /\ calls[i].timer
    /\ LET call == calls[i]
       IN /\ calls' = [calls EXCEPT ![i] =
                         Reject([call EXCEPT !.timer = FALSE], TimeoutError(call.method))]
          /\ fileContentHandlers' =
                IF call.method = "getFile"
                THEN Delete(fileContentHandlers, call.key)
                ELSE fileContentHandlers
          /\ commandResultHandlers' =
                IF call.method = "executeCommand"
                THEN Delete(commandResultHandlers, call.key)
                ELSE commandResultHandlers
    /\ CallFrame

\* updateFile's checkInterval fires: a check body starts with GET /ping (line 269)
CheckStart(i) ==
    /\ i \in 1..Len(calls)
    /\ calls[i].checker
    /\ ChecksRunning(calls[i]) < MaxChecks
    /\ calls' = [calls EXCEPT ![i].checking.ping = @ + 1]
    /\ UNCHANGED <<fileContentHandlers, commandResultHandlers>>
    /\ CallFrame

\* GET /ping of a check body is answered, with hasUpdates as the mailbox is
\* at that moment, or refused (line 269)
CheckPing(i) ==
    /\ i \in 1..Len(calls)
    /\ calls[i].checking.ping > 0
    /\ calls' = [calls EXCEPT
                   ![i].checking.ping = @ - 1,
                   ![i].checking.found =
                       IF up /\ Len(messages["claude"]) > 0 THEN @ + 1 ELSE @,
                   ![i].checking.over =
                       IF up /\ Len(messages["claude"]) > 0 THEN @ ELSE @ + 1]
    /\ UNCHANGED <<fileContentHandlers, commandResultHandlers>>
    /\ CallFrame

\* The check body goes on with what its ping got: it issues GET
\* /claude/messages when hasUpdates was true, and ends otherwise, also through
\* its catch block (lines 270-273, 291-293)
CheckPinged(i, found) ==
    /\ i \in 1..Len(calls)
    /\ IF found
       THEN /\ calls[i].checking.found > 0
            /\ calls' = [calls EXCEPT ![i].checking.found = @ - 1,
                                      ![i].checking.drain = @ + 1]
       ELSE /\ calls[i].checking.over > 0
            /\ calls' = [calls EXCEPT ![i].checking.over = @ - 1]
    /\ UNCHANGED <<fileContentHandlers, commandResultHandlers>>
    /\ CallFrame

\* Index of the first message of the batch that is the update result of path,
\* 0 when there is none (lines 277-278)
FirstResult(batch, path) ==
    LET hits == {j \in 1..Len(batch) :
                    /\ batch[j].type = "updateCodeResult"
                    /\ Get(batch[j], "path") = path}
    IN IF hits = {} THEN 0 ELSE CHOOSE j \in hits : \A k \in hits : j <= k

\* Lines 279-287: the result found stops the checker and the timer and settles
CheckResult(call, message) ==
    LET stopped == [call EXCEPT !.checker = FALSE, !.timer = FALSE]
    IN IF Falsy(Get(message, "success"))
       THEN Reject(stopped, Or(Get(message, "error"), UpdateFailedError))
       ELSE Resolve(stopped, UpdatedMessage(call.key), JsTrue)

\* GET /claude/messages of a check body is answered by the relay, which
\* empties the mailbox, or refused (line 273)
CheckDrain(i) ==
    /\ i \in 1..Len(calls)
    /\ calls[i].checking.drain > 0
    /\ IF up
       THEN /\ Drain("claude")
            /\ calls' = [calls EXCEPT
                           ![i].checking.drain = @ - 1,
                           ![i].checking.got =
                               Append(@, [ok |-> TRUE, batch |-> messages["claude"],
                                          from |-> Len(drained["claude"])])]
       ELSE /\ calls' = [calls EXCEPT
                           ![i].checking.drain = @ - 1,
                           ![i].checking.got =
                               Append(@, [ok |-> FALSE, batch |-> << >>, from |-> 0])]
            /\ UNCHANGED <<messages, drained>>
    /\ UNCHANGED <<up, now, posted, response>>
    /\ UNCHANGED <<fileContentHandlers, commandResultHandlers>>
    /\ UNCHANGED <<codecVars, connVars, sends, observerVars>>

\* The check body goes on with the messages its drain returned: it looks for
\* the update result of its path and settles the call with the first one; the
\* other messages are not looked at again. A refused drain ends in the catch
\* block, which logs (lines 274-293)
CheckDrained(i) ==
    /\ i \in 1..Len(calls)
    /\ calls[i].checking.got # << >>
    /\ LET got == Head(calls[i].checking.got)
           call == [calls[i] EXCEPT !.checking.got = Tail(@)]
           hit == FirstResult(got.batch, call.key)
       IN calls' = [calls EXCEPT ![i] =
                       IF hit = 0 THEN call ELSE CheckResult(call, got.batch[hit])]
    /\ UNCHANGED <<fileContentHandlers, commandResultHandlers>>
    /\ CallFrame

----------------------------------------------------------------------------
(* The connection and the poll loop of both clients:                        *)
(* part_000 lines 14-132 (ClaudeMCPClient),                                 *)
(* cline-mcp-client.js lines 19-134 and 378-385 (ClaudeBridgeTool)          *)

NoBody == [type |-> "none"]

RequestTypes == {"fileRequest", "updateCode", "executeCommand"}

\* A tick body. phase: idle (not running), ping / drain (its GET /ping or its
\* GET /<client>/messages is under way), and for Cline handle (the
\* collaborator serving batch[at] is under way) and post (the POST of reply to
\* url is under way, from the catch block when caught). answer: what the request
\* under way got from the relay and the body has not yet gone on with.
\* from: how many envelopes the relay had returned to the client before batch.
IdleTick ==
    [phase |-> "idle", answer |-> "none", batch |-> << >>, from |-> 0, at |-> 0,
     reply |-> NoBody, caught |-> FALSE, url |-> "none"]

TickSlots == 1..MaxTicks

\* The lowest slot without a running body, 0 when MaxTicks bodies are running
FreeSlot(c) ==
    LET free == {s \in TickSlots : ticks[c][s].phase = "idle"}
    IN IF free = {} THEN 0 ELSE CHOOSE s \in free : \A t \in free : s <= t

\* setInterval(...): a timer id not in use
NewTimer(active) == CHOOSE id \in 1..(Cardinality(active) + 1) : id \notin active

\* clearInterval(id)
ClearInterval(active, id) == active \ {id}

\* A startPolling() that starts a new interval without clearing the one held
StartPollingKeepsOld(c) ==
    LET id == NewTimer(intervals[c])
    IN /\ intervals' = [intervals EXCEPT ![c] = @ \cup {id}]
       /\ pollInterval' = [pollInterval EXCEPT ![c] = id]

\* startPolling(): clear the interval held, start a new one
StartPolling(c) ==
    LET kept == IF pollInterval[c] # 0
                THEN ClearInterval(intervals[c], pollInterval[c])
                ELSE intervals[c]
        id == NewTimer(kept)
    IN /\ intervals' = [intervals EXCEPT ![c] = kept \cup {id}]
       /\ pollInterval' = [pollInterval EXCEPT ![c] = id]

\* A catch block that schedules the probe but leaves the flag as it is
PollErrorKeepsFlag(c) ==
    /\ connected' = connected
    /\ probes' = [probes EXCEPT ![c].scheduled =
                     IF connected[c] THEN @ + 1 ELSE @]

\* A catch block that delays a connectToServer on every failure
PollErrorAlwaysSchedules(c) ==
    /\ connected' = [connected EXCEPT ![c] = FALSE]
    /\ probes' = [probes EXCEPT ![c].scheduled = @ + 1]

\* The catch block of the tick body: the first failure while connected
\* disconnects and delays one connectToServer by setTimeout
PollError(c) ==
    /\ connected' = [connected EXCEPT ![c] = FALSE]
    /\ probes' = [probes EXCEPT ![c].scheduled =
                     IF connected[c] THEN @ + 1 ELSE @]

\* The poll interval of c fires: a tick body starts and issues GET /ping
TickStart(c) ==
    /\ intervals[c] # {}
    /\ FreeSlot(c) # 0
    /\ ticks' = [ticks EXCEPT ![c][FreeSlot(c)].phase = "ping"]
    /\ UNCHANGED <<connected, pollInterval, intervals, probes, unhandled, cleaned>>
    /\ UNCHANGED <<relayVars, codecVars, callVars, sends, observerVars>>

\* GET /ping of a tick body is answered by the relay, with hasUpdates as the
\* mailbox is at that moment, or refused
TickPing(c, s) ==
    /\ ticks[c][s].phase = "ping"
    /\ ticks[c][s].answer = "none"
    /\ ticks' = [ticks EXCEPT ![c][s].answer =
                    IF ~up THEN "refused"
                    ELSE IF Len(messages[c]) > 0 THEN "updates" ELSE "empty"]
    /\ UNCHANGED <<connected, pollInterval, intervals, probes, unhandled, cleaned>>
    /\ UNCHANGED <<relayVars, codecVars, callVars, sends, observerVars>>

\* A tick body whose failed ping also rejects every call that is pending
TickPingedRejecting(c, s) ==
    /\ ticks[c][s].phase = "ping"
    /\ ticks[c][s].answer # "none"
    /\ IF ticks[c][s].answer = "refused"
       THEN /\ ticks' = [ticks EXCEPT ![c][s] = IdleTick]
            /\ PollError(c)
            /\ calls' = [i \in 1..Len(calls) |-> Reject(calls[i], NetworkError)]
       ELSE /\ ticks' = [ticks EXCEPT ![c][s] =
                            IF ticks[c][s].answer = "updates"
                            THEN [IdleTick EXCEPT !.phase = "drain"]
                            ELSE IdleTick]
            /\ UNCHANGED <<connected, probes, calls>>
    /\ UNCHANGED <<pollInterval, intervals, unhandled, cleaned>>
    /\ UNCHANGED <<fileContentHandlers, commandResultHandlers>>
    /\ UNCHANGED <<relayVars, codecVars, sends, observerVars>>

\* The tick body goes on after its ping: the catch block when the ping failed,
\* GET /<client>/messages when hasUpdates was true, the end otherwise
TickPinged(c, s) ==
    /\ ticks[c][s].phase = "ping"
    /\ ticks[c][s].answer # "none"
    /\ IF ticks[c][s].answer = "refused"
       THEN /\ ticks' = [ticks EXCEPT ![c][s] = IdleTick]
            /\ PollError(c)
       ELSE /\ ticks' = [ticks EXCEPT ![c][s] =
                            IF ticks[c][s].answer = "updates"
                            THEN [IdleTick EXCEPT !.phase = "drain"]
                            ELSE IdleTick]
            /\ UNCHANGED <<connected, probes>>
    /\ UNCHANGED <<pollInterval, intervals, unhandled, cleaned>>
    /\ UNCHANGED <<relayVars, codecVars, callVars, sends, observerVars>>

\* GET /<client>/messages of a tick body is answered by the relay, which
\* empties the mailbox, or refused
TickDrain(c, s) ==
    /\ ticks[c][s].phase = "drain"
    /\ ticks[c][s].answer = "none"
    /\ IF up
       THEN /\ Drain(c)
            /\ ticks' = [ticks EXCEPT ![c][s].answer = "ok",
                                      ![c][s].batch = messages[c],
                                      ![c][s].from = Len(drained[c])]
       ELSE /\ ticks' = [ticks EXCEPT ![c][s].answer = "refused"]
            /\ UNCHANGED <<messages, drained>>
    /\ UNCHANGED <<up, now, posted, response>>
    /\ UNCHANGED <<connected, pollInterval, intervals, probes, unhandled, cleaned>>
    /\ UNCHANGED <<codecVars, callVars, sends, observerVars>>

\* The types for which handleMessage awaits a handler (lines 109-119, 126-129)
AwaitedTypes == RequestTypes \cup {"mcp_invoke"}

\* The first message of the batch after position at that handleMessage awaits
\* a handler for, 0 when there is none
NextRequest(batch, at) ==
    LET later == {n \in (at + 1)..Len(batch) : batch[n].type \in AwaitedTypes}
    IN IF later = {} THEN 0 ELSE CHOOSE n \in later : \A k \in later : n <= k

\* `Unknown MCP method: ${message.method}`, line 260
UnknownMethodError(method) == "Unknown MCP method: " \o method

\* The TypeError of reading message.params.path (lines 245, 250) or
\* message.params.command (line 255) when the message has no params
NoParamsError(method) ==
    "Cannot read properties of undefined (reading '"
        \o (IF method = "executeCommand" THEN "command" ELSE "path") \o "')"

\* The error handleMcpInvoke throws before it calls a collaborator, Undef when
\* it calls one (lines 243-261)
McpThrows(message) ==
    LET method == Get(message, "method")
    IN IF method \notin Methods THEN UnknownMethodError(method)
       ELSE IF Get(message, "params") = Undef THEN NoParamsError(method)
       ELSE Undef

\* The body handleMcpInvoke posts to /mcp/response when the collaborator
\* returned (lines 246, 251, 256, 269-273)
McpResult(message) ==
    [id |-> Get(message, "id"),
     result |-> CASE Get(message, "method") = "getFile" -> [content |-> FileDataValue]
                  [] Get(message, "method") = "updateFile" -> [success |-> JsTrue]
                  [] OTHER -> [output |-> CommandOutputValue, success |-> JsTrue],
     jsonrpc |-> "2.0"]

\* The body the catch block of handleMcpInvoke posts to /mcp/response (lines
\* 282-289)
McpError(message, error) ==
    [id |-> Get(message, "id"),
     error |-> [code |-> -32000, message |-> error],
     jsonrpc |-> "2.0"]

\* The route a handler posts its reply to (lines 142, 155, 175, 188, 209, 223;
\* 264, 277)
ReplyUrl(message) ==
    IF message.type = "mcp_invoke" THEN "/mcp/response" ELSE "/cline/message"

\* for (const message of messages) await this.handleMessage(message): the
\* messages handleMessage awaits no handler for are handled without a request
\* or a collaborator; the body goes on to the next message it awaits a handler
\* for, or ends. The handler calls its collaborator; handleMcpInvoke, when it
\* throws before that (the message has no method it knows), issues the POST
\* of its catch block
Advance(tick) ==
    LET n == NextRequest(tick.batch, tick.at)
        message == tick.batch[n]
        next == [tick EXCEPT !.at = n, !.answer = "none", !.url = ReplyUrl(message)]
    IN IF n = 0 THEN IdleTick
       ELSE IF message.type = "mcp_invoke" /\ McpThrows(message) # Undef
       THEN [next EXCEPT !.phase = "post",
                         !.reply = McpError(message, McpThrows(message)),
                         !.caught = TRUE]
       ELSE [next EXCEPT !.phase = "handle", !.reply = NoBody, !.caught = FALSE]

\* The tick body goes on after its drain: the catch block when the drain
\* failed. Claude hands every message to handleMessage at once, and an error
\* thrown there ends in the catch block too; Cline awaits handleMessage for
\* one message after the other.
TickDrained(c, s) ==
    /\ ticks[c][s].phase = "drain"
    /\ ticks[c][s].answer # "none"
    /\ LET tick == ticks[c][s]
           st == HandleAll(ClientState, tick.batch)
       IN IF tick.answer = "refused"
          THEN /\ ticks' = [ticks EXCEPT ![c][s] = IdleTick]
               /\ PollError(c)
               /\ UNCHANGED <<callVars, delivered, handled>>
          ELSE IF c = "claude"
          THEN /\ SetClientState(st, tick.from)
               /\ ticks' = [ticks EXCEPT ![c][s] = IdleTick]
               /\ IF st.threw THEN PollError(c)
                  ELSE UNCHANGED <<connected, probes>>
          ELSE /\ ticks' = [ticks EXCEPT ![c][s] = Advance(tick)]
               /\ UNCHANGED <<callVars, delivered, handled>>
               /\ UNCHANGED <<connected, probes>>
    /\ UNCHANGED <<pollInterval, intervals, unhandled, cleaned>>
    /\ UNCHANGED <<relayVars, codecVars, sends, messageHandlers>>

\* The connectToServer runs of a client: delayed by setTimeout, waiting for
\* the answer to GET /status, answered (ok) or failed (refused) and not yet
\* gone on
NoProbes == [scheduled |-> 0, inflight |-> 0, ok |-> 0, refused |-> 0]

\* A delayed connectToServer starts: GET /status is issued
ProbeFire(c) ==
    /\ probes[c].scheduled > 0
    /\ probes' = [probes EXCEPT ![c].scheduled = @ - 1, ![c].inflight = @ + 1]
    /\ UNCHANGED <<connected, pollInterval, intervals, ticks, unhandled, cleaned>>
    /\ UNCHANGED <<relayVars, codecVars, callVars, sends, observerVars>>

\* GET /status of a connectToServer is answered by the relay, or fails
ConnectStatus(c) ==
    /\ probes[c].inflight > 0
    /\ probes' = [probes EXCEPT ![c].inflight = @ - 1,
                                ![c].ok = IF up THEN @ + 1 ELSE @,
                                ![c].refused = IF up THEN @ ELSE @ + 1]
    /\ UNCHANGED <<connected, pollInterval, intervals, ticks, unhandled, cleaned>>
    /\ UNCHANGED <<relayVars, codecVars, callVars, sends, observerVars>>

\* connectToServer goes on with the answer of /status: startPolling(),
\* connected = true
ConnectOk(c) ==
    /\ probes[c].ok > 0
    /\ probes' = [probes EXCEPT ![c].ok = @ - 1]
    /\ StartPolling(c)
    /\ connected' = [connected EXCEPT ![c] = TRUE]
    /\ UNCHANGED <<ticks, unhandled, cleaned>>
    /\ UNCHANGED <<relayVars, codecVars, callVars, sends, observerVars>>

\* connectToServer goes on with the failure of its request: the message is
\* logged and an Error is thrown out of the async function, whose promise
\* nobody holds
ConnectFail(c) ==
    /\ probes[c].refused > 0
    /\ probes' = [probes EXCEPT ![c].refused = @ - 1]
    /\ unhandled' = [unhandled EXCEPT ![c] = TRUE]
    /\ UNCHANGED <<connected, pollInterval, intervals, ticks, cleaned>>
    /\ UNCHANGED <<relayVars, codecVars, callVars, sends, observerVars>>

\* cleanup()
Cleanup(c) ==
    /\ connected' = [connected EXCEPT ![c] = FALSE]
    /\ intervals' = [intervals EXCEPT ![c] =
                        IF pollInterval[c] # 0 THEN ClearInterval(@, pollInterval[c])
                        ELSE @]
    /\ pollInterval' = [pollInterval EXCEPT ![c] = 0]
    /\ UNCHANGED <<probes, ticks, unhandled>>
    /\ cleaned' = [cleaned EXCEPT ![c] = TRUE]
    /\ UNCHANGED <<relayVars, codecVars, callVars, sends, observerVars>>

\* The relay process stops
RelayDown ==
    /\ up
    /\ up' = FALSE
    /\ UNCHANGED <<messages, now, posted, drained, response, codecVars, clientVars>>

\* The relay process is started again: `messages` is new, with both queues empty
RelayUp ==
    /\ ~up
    /\ up' = TRUE
    /\ messages' = [p \in Parties |-> << >>]
    /\ UNCHANGED <<now, posted, drained, response, codecVars, clientVars>>

----------------------------------------------------------------------------
(* ClaudeBridgeTool: serving requests, cline-mcp-client.js lines 104-236 *)

\* The body posted when the collaborator succeeded (lines 147-151, 180-184, 214-219)
SuccessReply(message) ==
    CASE message.type = "fileRequest" ->
            [type |-> "fileContent", path |-> Get(message, "path"),
             content |-> FileDataValue]
      [] message.type = "updateCode" ->
            [type |-> "updateCodeResult", path |-> Get(message, "path"),
             success |-> JsTrue]
      [] message.type = "executeCommand" ->
            [type |-> "commandResult", command |-> Get(message, "command"),
             output |-> CommandOutputValue, success |-> JsTrue]

\* A catch block that reports a fixed text instead of error.message
ErrorReplyGeneric(message, error) ==
    CASE message.type = "fileRequest" ->
            [type |-> "fileContent", path |-> Get(message, "path"),
             error |-> "Request failed"]
      [] message.type = "updateCode" ->
            [type |-> "updateCodeResult", path |-> Get(message, "path"),
             success |-> JsFalse, error |-> "Request failed"]
      [] message.type = "executeCommand" ->
            [type |-> "commandResult", command |-> Get(message, "command"),
             success |-> JsFalse, error |-> "Request failed"]

\* The body posted by the catch block (lines 160-164, 193-198, 228-233)
ErrorReply(message, error) ==
    CASE message.type = "fileRequest" ->
            [type |-> "fileContent", path |-> Get(message, "path"), error |-> error]
      [] message.type = "updateCode" ->
            [type |-> "updateCodeResult", path |-> Get(message, "path"),
             success |-> JsFalse, error |-> error]
      [] message.type = "executeCommand" ->
            [type |-> "commandResult", command |-> Get(message, "command"),
             success |-> JsFalse, error |-> error]

ServeFrame ==
    /\ UNCHANGED <<connected, pollInterval, intervals, probes, unhandled, cleaned>>
    /\ UNCHANGED <<callVars, sends, observerVars>>

\* The reply a handler posts when the collaborator returned, and the one its
\* catch block posts for an error
ReplyFor(message) ==
    IF message.type = "mcp_invoke" THEN McpResult(message) ELSE SuccessReply(message)

CaughtReplyFor(message, error) ==
    IF message.type = "mcp_invoke" THEN McpError(message, error)
    ELSE ErrorReply(message, error)

\* The collaborator (readFile, writeFile, executeCommand) called for the
\* request returns or throws, and the handler issues the POST of its reply:
\* of the success reply, or in the catch block of the error reply (lines
\* 139-142 and 153-155, 172-175 and 186-188, 206-209 and 221-223, 245-264
\* and 275-277)
HandleNext(s, succeeds) ==
    /\ ticks["cline"][s].phase = "handle"
    /\ LET tick == ticks["cline"][s]
           message == tick.batch[tick.at]
       IN ticks' = [ticks EXCEPT !["cline"][s] =
                       [tick EXCEPT
                          !.phase = "post",
                          !.answer = "none",
                          !.reply = IF succeeds THEN ReplyFor(message)
                                    ELSE CaughtReplyFor(message, CollaboratorError),
                          !.caught = ~succeeds]]
    /\ UNCHANGED relayVars
    /\ UNCHANGED codecVars
    /\ ServeFrame

\* The POST of a reply reaches the relay or fails: the relay enqueues the body
\* posted to /cline/message and has no route for /mcp/response (404)
ReplyPost(s) ==
    /\ ticks["cline"][s].phase = "post"
    /\ ticks["cline"][s].answer = "none"
    /\ IF ~up
       THEN /\ ticks' = [ticks EXCEPT !["cline"][s].answer = "refused"]
            /\ UNCHANGED <<messages, now, posted>>
       ELSE IF ticks["cline"][s].url = "/mcp/response"
       THEN /\ ticks' = [ticks EXCEPT !["cline"][s].answer = "notfound"]
            /\ UNCHANGED <<messages, now, posted>>
       ELSE /\ \E ts \in Clock : Enqueue("claude", ticks["cline"][s].reply, ts)
            /\ ticks' = [ticks EXCEPT !["cline"][s].answer = "ok"]
    /\ UNCHANGED <<up, drained, response, codecVars>>
    /\ ServeFrame

\* The handler goes on after its POST. When the POST of a success reply
\* failed, the catch block is entered with the POST's error and posts the
\* error reply. When the POST of the catch block failed, the error leaves the
\* handler and handleMessage logs it (lines 131-133). In every other case,
\* the 404 of /mcp/response included, the handler returns; the tick body goes
\* on with the next message.
ReplyPosted(s) ==
    /\ ticks["cline"][s].phase = "post"
    /\ ticks["cline"][s].answer # "none"
    /\ LET tick == ticks["cline"][s]
           message == tick.batch[tick.at]
       IN ticks' = [ticks EXCEPT !["cline"][s] =
                       IF tick.answer = "refused" /\ ~tick.caught
                       THEN [tick EXCEPT
                               !.answer = "none",
                               !.reply = CaughtReplyFor(message, NetworkError),
                               !.caught = TRUE]
                       ELSE Advance(tick)]
    /\ UNCHANGED relayVars
    /\ UNCHANGED codecVars
    /\ ServeFrame

----------------------------------------------------------------------------
(* The calls without a reply: part_000 lines 351-406,                       *)
(* cline-mcp-client.js lines 295-375                                        *)

Other(c) == IF c = "claude" THEN "cline" ELSE "claude"

\* JSON.stringify({content, type: 'text'}) of sendMessage
TextBody == [content |-> "hi", type |-> "text"]

\* JSON.stringify({name, content}) of sendFile
FileBody == [name |-> "a.txt", content |-> FileDataValue]

\* JSON.stringify({type: 'fileChanged', path, content}) of notifyFileChanged
ChangedBody(path) ==
    [type |-> "fileChanged", path |-> path, content |-> FileDataValue]

\* A call of sendMessage / sendFile / notifyFileChanged: the value of the
\* connected flag when it was made, what its request got from the relay
\* (answer), whether the relay enqueued its body, and what the caller got
\* (outcome: pending while the request is under way)
NoSend ==
    [client |-> "none", method |-> "none", connected |-> FALSE,
     outcome |-> "none", answer |-> "none", error |-> Undef, enqueued |-> FALSE,
     body |-> NoBody]

SendSlots == 1..MaxSends

\* The lowest slot no call under way holds, 0 when MaxSends calls are under way
FreeSend ==
    LET free == {n \in SendSlots : sends[n].outcome # "pending"}
    IN IF free = {} THEN 0 ELSE CHOOSE n \in free : \A k \in free : n <= k

\* The call returns or throws before any request
Returned(c, method, outcome, error) ==
    sends' = [sends EXCEPT ![FreeSend] =
                 [NoSend EXCEPT !.client = c, !.method = method,
                                !.connected = connected[c],
                                !.outcome = outcome, !.error = error]]

\* The call issues its POST
Requested(c, method, body) ==
    sends' = [sends EXCEPT ![FreeSend] =
                 [NoSend EXCEPT !.client = c, !.method = method,
                                !.connected = connected[c],
                                !.outcome = "pending", !.body = body]]

SendFrame ==
    UNCHANGED <<relayVars, codecVars, connVars, callVars, observerVars>>

\* sendMessage(content) of either client up to its await: the connected
\* check and POST /<client>/message
ClientSendMessage(c) ==
    /\ FreeSend # 0
    /\ IF connected[c] THEN Requested(c, "sendMessage", TextBody)
       ELSE Returned(c, "sendMessage", "rejected", NotConnectedError)
    /\ SendFrame

\* sendFile(name, content) of either client up to its await: the connected
\* check and POST /<client>/file
ClientSendFile(c) ==
    /\ FreeSend # 0
    /\ IF connected[c] THEN Requested(c, "sendFile", FileBody)
       ELSE Returned(c, "sendFile", "rejected", NotConnectedError)
    /\ SendFrame

\* A notifyFileChanged that posts whatever the connected flag is
NotifyFileChangedUnchecked(path) ==
    /\ FreeSend # 0
    /\ Requested("cline", "notifyFileChanged", ChangedBody(path))
    /\ SendFrame

\* notifyFileChanged(path, content) of ClaudeBridgeTool up to its await: it
\* returns at once when not connected
NotifyFileChanged(path) ==
    /\ FreeSend # 0
    /\ IF connected["cline"]
       THEN Requested("cline", "notifyFileChanged", ChangedBody(path))
       ELSE Returned("cline", "notifyFileChanged", "resolved", Undef)
    /\ SendFrame

\* The POST of a call under way reaches the relay or fails: the relay
\* enqueues the body of sendMessage and notifyFileChanged for the other party
\* and has no route for sendFile (404)
SendAnswer(n) ==
    /\ sends[n].outcome = "pending"
    /\ sends[n].answer = "none"
    /\ IF ~up
       THEN /\ sends' = [sends EXCEPT ![n].answer = "refused"]
            /\ UNCHANGED <<messages, now, posted>>
       ELSE IF sends[n].method = "sendFile"
       THEN /\ sends' = [sends EXCEPT ![n].answer = "notfound"]
            /\ UNCHANGED <<messages, now, posted>>
       ELSE /\ \E ts \in Clock :
                  Enqueue(Other(sends[n].client), sends[n].body, ts)
            /\ sends' = [sends EXCEPT ![n].answer = "ok", ![n].enqueued = TRUE]
    /\ UNCHANGED <<up, drained, response>>
    /\ UNCHANGED <<codecVars, connVars, callVars, observerVars>>

\* `Failed to send file: ${response.statusText}`
SendFileFailedError == "Failed to send file: Not Found"

\* The call goes on after await fetch: sendMessage and sendFile throw the
\* error of a failed request and the error for a response that is not ok;
\* notifyFileChanged logs a failed request and returns
SendReturn(n) ==
    /\ sends[n].outcome = "pending"
    /\ sends[n].answer # "none"
    /\ sends' = [sends EXCEPT ![n] =
          IF sends[n].method = "notifyFileChanged" \/ sends[n].answer = "ok"
          THEN [@ EXCEPT !.outcome = "resolved"]
          ELSE [@ EXCEPT
                  !.outcome = "rejected",
                  !.error = IF sends[n].answer = "refused" THEN NetworkError
                            ELSE SendFileFailedError]]
    /\ SendFrame

----------------------------------------------------------------------------
(* Observers of the Claude client: part_000 lines 409-416 *)

Observers == {"h1", "h2"}

ObserverFrame ==
    UNCHANGED <<relayVars, codecVars, connVars, callVars, sends, delivered,
                handled>>

\* onMessage(handler): this.messageHandlers.push(handler)
OnMessage(handler) ==
    /\ Len(messageHandlers) < MaxHandlers
    /\ messageHandlers' = Append(messageHandlers, handler)
    /\ ObserverFrame

\* The function onMessage returned is called:
\* this.messageHandlers = this.messageHandlers.filter(h => h !== handler)
RemoveHandler(handler) ==
    /\ \E n \in 1..Len(messageHandlers) : messageHandlers[n] = handler
    /\ messageHandlers' =
          LET Keep(h) == h # handler IN SelectSeq(messageHandlers, Keep)
    /\ ObserverFrame

----------------------------------------------------------------------------
(* The bridge as a whole *)

\* The connectToServer runs of c that are delayed or have not yet gone on
\* after GET /status
ProbesPending(c) ==
    probes[c].scheduled + probes[c].inflight + probes[c].ok + probes[c].refused

\* The tick bodies of c that are running
Running(c) == {s \in TickSlots : ticks[c][s].phase # "idle"}

\* The clients in built: new ClaudeMCPClient() / new ClaudeBridgeTool(context)
\* has run, and the constructor has called connectToServer(), whose request is
\* under way. The other client has not been constructed.
InitClients(built) ==
    /\ connected = [c \in Parties |-> FALSE]
    /\ pollInterval = [c \in Parties |-> 0]
    /\ intervals = [c \in Parties |-> {}]
    /\ probes = [c \in Parties |->
                    IF c \in built THEN [NoProbes EXCEPT !.inflight = 1]
                    ELSE NoProbes]
    /\ ticks = [c \in Parties |-> [s \in TickSlots |-> IdleTick]]
    /\ unhandled = [c \in Parties |-> FALSE]
    /\ cleaned = [c \in Parties |-> FALSE]
    /\ calls = << >>
    /\ fileContentHandlers = [k \in Keys |-> 0]
    /\ commandResultHandlers = [k \in Keys |-> 0]
    /\ sends = [n \in SendSlots |-> NoSend]
    /\ messageHandlers = << >>
    /\ delivered = << >>
    /\ handled = << >>

\* Both clients have been constructed
Init == InitRelayVars /\ InitCodec /\ InitClients(Parties)

\* One of the clients has been constructed
InitEither ==
    /\ InitRelayVars
    /\ InitCodec
    /\ \E c \in Parties : InitClients({c})

\* The client exists: its constructor has run
Built(c) ==
    \/ ProbesPending(c) > 0
    \/ pollInterval[c] # 0
    \/ cleaned[c]
    \/ unhandled[c]

\* What the peer of Cline posts to /claude/message: requests, and a message
RequestBodies ==
    {[type |-> "fileRequest", path |-> "a.txt"],
     [type |-> "updateCode", path |-> "a.txt", content |-> FileDataValue],
     [type |-> "executeCommand", command |-> "ls"],
     [type |-> "mcp_invoke", method |-> "getFile", params |-> [path |-> "a.txt"],
      id |-> 1],
     TextBody}

\* What a peer posts with the type handleMessage passes on to the observers
ChatBody == [type |-> "message", content |-> "hi", from |-> "cline"]

\* What a peer posts with the type handleMessage takes for a batch: the relay
\* stores its type and its content, not its messages
BatchBody == [type |-> "messages", messages |-> <<ChatBody>>]

NextSends ==
    \/ \E c \in Parties : ClientSendMessage(c)
    \/ \E c \in Parties : ClientSendFile(c)
    \/ NotifyFileChanged("a.txt")
    \/ \E n \in SendSlots : SendAnswer(n)
    \/ \E n \in SendSlots : SendReturn(n)

\* The handshake and the poll loop of the Claude client
NextClaude ==
    \/ ConnectStatus("claude")
    \/ ConnectOk("claude")
    \/ TickStart("claude")
    \/ \E s \in TickSlots : TickPing("claude", s)
    \/ \E s \in TickSlots : TickPinged("claude", s)
    \/ \E s \in TickSlots : TickDrain("claude", s)
    \/ \E s \in TickSlots : TickDrained("claude", s)

\* The handshake and the poll loop of the Cline client, serving the requests
\* it drains
NextCline ==
    \/ ConnectStatus("cline")
    \/ ConnectOk("cline")
    \/ TickStart("cline")
    \/ \E s \in TickSlots : TickPing("cline", s)
    \/ \E s \in TickSlots : TickPinged("cline", s)
    \/ \E s \in TickSlots : TickDrain("cline", s)
    \/ \E s \in TickSlots : TickDrained("cline", s)
    \/ \E s \in TickSlots, succeeds \in BOOLEAN : HandleNext(s, succeeds)
    \/ \E s \in TickSlots : ReplyPost(s)
    \/ \E s \in TickSlots : ReplyPosted(s)

\* What an HTTP client posts to /cline/message as the reply to a getFile: the
\* bodies handleFileRequest posts when the collaborator returned and from its
\* catch block
FileReplies(path) ==
    LET message == [type |-> "fileRequest", path |-> path]
    IN {SuccessReply(message), ErrorReply(message, CollaboratorError)}

\* The same for executeCommand and handleExecuteCommand
CommandReplies(command) ==
    LET message == [type |-> "executeCommand", command |-> command]
    IN {SuccessReply(message), ErrorReply(message, CollaboratorError)}

\* An HTTP client posts a reply to /cline/message
PostReply(body) ==
    /\ Len(posted["claude"]) < MaxReplies
    /\ PostClineMessage(body)

\* The three correlated calls of the Claude client with their timers and the
\* check bodies of updateFile, the poll loop, and replies posted to the relay
\* for Claude. POST /mcp/invoke is answered by the relay of README.md (404)
\* or by a bridge that has the route.
Next ==
    \/ NextClaude
    \/ GetFile(Undef)
    \/ UpdateFile(Undef)
    \/ ExecuteCommand(Undef)
    \/ \E i \in 1..MaxCalls, ok \in BOOLEAN : InvokeAnswer(i, ok)
    \/ \E i \in 1..MaxCalls : InvokeResponse(i)
    \/ \E i \in 1..MaxCalls : TimeoutFire(i)
    \/ \E i \in 1..MaxCalls : CheckStart(i)
    \/ \E i \in 1..MaxCalls : CheckPing(i)
    \/ \E i \in 1..MaxCalls, found \in BOOLEAN : CheckPinged(i, found)
    \/ \E i \in 1..MaxCalls : CheckDrain(i)
    \/ \E i \in 1..MaxCalls : CheckDrained(i)
    \/ \E body \in FileReplies(Undef) \cup CommandReplies(Undef) : PostReply(body)

Spec == Init /\ [][Next]_vars

\* updateFile on the Claude client while the relay of README.md and the Cline
\* client run: both clients have connected and poll, and Claude's calls make
\* their request, which the relay answers 404
NextUpdate ==
    \/ \E c \in Parties : ConnectStatus(c)
    \/ \E c \in Parties : ConnectOk(c)
    \/ \E c \in Parties : TickStart(c)
    \/ \E c \in Parties, s \in TickSlots : TickPing(c, s)
    \/ \E c \in Parties, s \in TickSlots : TickPinged(c, s)
    \/ \E k \in Keys : connected["cline"] /\ UpdateFile(k)
    \/ \E i \in 1..MaxCalls : InvokeAnswer(i, FALSE)
    \/ \E i \in 1..MaxCalls : InvokeResponse(i)

SpecUpdate == Init /\ [][NextUpdate]_vars

\* The connection of a client while the relay stops and starts again. The
\* messages posted for it are none it answers; Claude is also sent one that
\* makes handleMessage throw
NextLink ==
    \/ RelayDown
    \/ RelayUp
    \/ \E c \in Parties : ProbeFire(c)
    \/ \E c \in Parties : ConnectStatus(c)
    \/ \E c \in Parties : ConnectOk(c)
    \/ \E c \in Parties : ConnectFail(c)
    \/ \E c \in Parties : Built(c) /\ Cleanup(c)
    \/ \E c \in Parties : TickStart(c)
    \/ \E c \in Parties, s \in TickSlots : TickPing(c, s)
    \/ \E c \in Parties, s \in TickSlots : TickPinged(c, s)
    \/ \E c \in Parties, s \in TickSlots : TickDrain(c, s)
    \/ \E c \in Parties, s \in TickSlots : TickDrained(c, s)
    \/ PostClaudeMessage(TextBody)
    \/ PostClineMessage(TextBody)
    \/ PostClineMessage(BatchBody)

SpecConn == InitEither /\ [][NextLink]_vars

\* The Cline client serving the requests posted for it while the relay stops
\* and starts again
NextServe ==
    \/ RelayDown
    \/ RelayUp
    \/ NextCline
    \/ ProbeFire("cline")
    \/ ConnectFail("cline")
    \/ \E body \in RequestBodies : PostClaudeMessage(body)

SpecServe == Init /\ [][NextServe]_vars

\* The calls without a reply, made in every connection state
NextOneWay ==
    \/ RelayDown
    \/ RelayUp
    \/ \E c \in Parties : ConnectStatus(c)
    \/ \E c \in Parties : ConnectOk(c)
    \/ \E c \in Parties : ConnectFail(c)
    \/ \E c \in Parties : Cleanup(c)
    \/ NextSends

SpecSends == Init /\ [][NextOneWay]_vars

\* The Claude client with its observers, and the Cline client that sends it
\* messages and file notifications
NextObserve ==
    \/ NextClaude
    \/ ConnectStatus("cline")
    \/ ConnectOk("cline")
    \/ \E handler \in Observers : OnMessage(handler)
    \/ \E handler \in Observers : RemoveHandler(handler)
    \/ ClientSendMessage("cline")
    \/ NotifyFileChanged("a.txt")
    \/ \E n \in SendSlots : SendAnswer(n)
    \/ \E n \in SendSlots : SendReturn(n)

SpecObserve == Init /\ [][NextObserve]_vars

\* Calls of getFile with and without a path and of executeCommand, with the
\* poll loop, the timers and replies posted to the relay for Claude
NextKeys ==
    \/ NextClaude
    \/ \E k \in Keys : GetFile(k)
    \/ ExecuteCommand(Undef)
    \/ \E i \in 1..MaxCalls, ok \in BOOLEAN : InvokeAnswer(i, ok)
    \/ \E i \in 1..MaxCalls : InvokeResponse(i)
    \/ \E i \in 1..MaxCalls : TimeoutFire(i)
    \/ \E k \in Keys :
          \E body \in FileReplies(k) \cup CommandReplies(Undef) : PostReply(body)

SpecKeys == Init /\ [][NextKeys]_vars

\* The Claude client with getFile calls pending while the relay stops and
\* starts again
NextOutage ==
    \/ NextClaude
    \/ RelayDown
    \/ RelayUp
    \/ ProbeFire("claude")
    \/ ConnectFail("claude")
    \/ GetFile(Undef)
    \/ \E i \in 1..MaxCalls, ok \in BOOLEAN : InvokeAnswer(i, ok)
    \/ \E i \in 1..MaxCalls : InvokeResponse(i)
    \/ \E i \in 1..MaxCalls : TimeoutFire(i)
    \/ \E body \in FileReplies(Undef) : PostReply(body)

SpecOutage == Init /\ [][NextOutage]_vars

\* The timers of Node fire (the timeout of a call, the poll interval, the
\* checkInterval of updateFile), code that awaits a request goes on once the
\* request was answered or has failed, and the relay answers the requests of
\* the handshake, of the poll loop and of the check bodies. Nothing makes
\* POST /mcp/invoke end when it gets no answer: fetch is called without a
\* timeout
FairCalls ==
    /\ WF_vars(NextClaude)
    /\ \A i \in 1..MaxCalls :
          /\ WF_vars(InvokeResponse(i))
          /\ WF_vars(TimeoutFire(i))
          /\ WF_vars(CheckStart(i) \/ CheckPing(i) \/ CheckDrain(i)
                        \/ CheckDrained(i)
                        \/ \E found \in BOOLEAN : CheckPinged(i, found))

\* The calls of Spec under that fairness
SpecSettle == Spec /\ FairCalls

\* The relay alone, driven by any HTTP client
SpecRelay == Init /\ [][NextRelay]_vars

\* The byte-stream server alone
SpecCodec == Init /\ [][NextCodec]_vars

\* The decoder reading frames and the line breaks between them
SpecStray == Init /\ [][NextStray]_vars

\* The byte-stream server answering the requests of a peer
SpecServer == Init /\ [][NextServer]_vars

----------------------------------------------------------------------------
(* Claims about the relay's mailboxes *)

\* The envelopes enqueued to a mailbox, in enqueue order
Enqueued(p) ==
    [i \in 1..Len(posted[p]) |-> Envelope(posted[p][i].body, posted[p][i].ts)]

\* C1: for each mailbox, under any interleaving of the POST and GET handlers,
\* everything the drains returned so far followed by the current queue is the
\* sequence of envelopes enqueued, in enqueue order: nothing is returned
\* twice and nothing is omitted.
C1_DrainsAreTheEnqueueSequence ==
    \A p \in Parties : drained[p] \o messages[p] = Enqueued(p)

\* C1 witness: a mailbox was drained and holds a later, different envelope
C1_Witness ==
    \E p \in Parties :
        /\ Len(drained[p]) >= 1
        /\ Len(messages[p]) >= 1
        /\ drained[p][1] # messages[p][1]

----------------------------------------------------------------------------
(* Claims about the frame codec *)

\* C8: the codec round-trips. Once every byte written by sendMessage has been
\* delivered to the 'data' handler, in chunks of any sizes, the messages the
\* decode loop extracted are exactly the contents written, in order; and a
\* chunk holding two whole frames yields both in that one run of the loop.
C8_RoundTrip ==
    wire = << >> => frames = written

----------------------------------------------------------------------------
(* Claims about the replies to correlated calls *)

Settled(call) == call.state \in {"resolved", "rejected"}

\* The methods that register a Pending Entry, the type of their reply and the
\* property of the reply that carries the key
KeyedMethods == {"getFile", "executeCommand"}
ReplyTypeOf(method) == IF method = "getFile" THEN "fileContent" ELSE "commandResult"
KeyField(method) == IF method = "getFile" THEN "path" ELSE "command"

\* The call whose closure is the entry of the key, 0 when the key has none
Holder(method, key) ==
    IF method = "getFile" THEN fileContentHandlers[key]
    ELSE commandResultHandlers[key]

\* The body that was posted for the envelope at position j of Claude's drains
DrainedBody(j) == posted["claude"][j].body

\* The envelope Claude's handleMessage was called with as its n-th
HandledEnvelope(n) == drained["claude"][handled[n]]

\* The tick body in slot s of Claude goes on with the batch its drain
\* returned: it hands the batch to handleMessage
Dispatching(s) ==
    /\ ticks["claude"][s].phase = "drain"
    /\ ticks["claude"][s].answer = "ok"
    /\ ticks'["claude"][s] # ticks["claude"][s]

\* The bodies that were posted for the envelopes of the batch a tick body holds
PostedBatch(tick) ==
    [n \in 1..Len(tick.batch) |-> DrainedBody(tick.from + n)]

\* The bodies hold a reply for the method with the key
HasReply(bodies, method, key) ==
    \E n \in 1..Len(bodies) :
        /\ bodies[n].type = ReplyTypeOf(method)
        /\ Get(bodies[n], KeyField(method)) = key

\* The first call of handleMessage, after call i registered, with an envelope
\* posted as a fileContent reply for the path of call i; 0 when there is none
FirstFileReply(i) ==
    LET hits == {n \in 1..Len(handled) :
                    /\ handled[n] > calls[i].since
                    /\ DrainedBody(handled[n]).type = "fileContent"
                    /\ Get(DrainedBody(handled[n]), "path") = calls[i].key}
    IN IF hits = {} THEN 0 ELSE CHOOSE n \in hits : \A k \in hits : n <= k

\* C2: a getFile call whose fileContent reply for its path was relayed, drained
\* by the poll loop and handed to handleMessage before its timeout fired has
\* resolved with the reply's content, or, when the reply carries an error, has
\* rejected with that error.
C2_ReplySettlesGetFile ==
    \A i \in 1..Len(calls) :
        LET call == calls[i]
            n == FirstFileReply(i)
            reply == DrainedBody(handled[n])
            late == /\ call.state = "rejected"
                    /\ call.error = FileTimeoutError
                    /\ call.settledAt < n
        IN (call.method = "getFile" /\ call.registered /\ n # 0 /\ ~late) =>
              IF ~Falsy(Get(reply, "error"))
              THEN call.state = "rejected" /\ call.error = reply.error
              ELSE call.state = "resolved" /\ call.value = reply.content

\* The keys whose entries a batch can reach in each handler map
FileKeys(batch) ==
    {Get(batch[j], "path") : j \in {n \in 1..Len(batch) : batch[n].type = "fileContent"}}

CommandKeys(batch) ==
    {Get(batch[j], "command") :
        j \in {n \in 1..Len(batch) : batch[n].type = "commandResult"}}

\* The calls that hold a Pending Entry a batch can reach
Reached(batch) ==
    {fileContentHandlers[k] : k \in FileKeys(batch)}
        \cup {commandResultHandlers[k] : k \in CommandKeys(batch)}

\* C3: when the timeout of a waiting getFile or executeCommand call fires, the
\* call rejects with its timeout error; and a tick body that hands the batch
\* it drained to handleMessage changes no call and no entry of either handler
\* map other than those the keys of the batch's replies have an entry for, so
\* a reply whose key has no Pending Entry changes nothing.
C3_TimeoutThenLateReplyDropped ==
    [][/\ \A i \in 1..Len(calls) :
             (TimeoutFire(i) /\ calls[i].state = "waiting"
                  /\ calls[i].method \in KeyedMethods) =>
                /\ calls'[i].state = "rejected"
                /\ calls'[i].error \in {FileTimeoutError, CommandTimeoutError}
                /\ calls'[i].error = TimeoutError(calls[i].method)
       /\ \A s \in TickSlots :
             Dispatching(s) =>
                LET batch == ticks["claude"][s].batch
                IN /\ \A i \in 1..Len(calls) :
                         i \notin Reached(batch) => calls'[i] = calls[i]
                   /\ \A k \in Keys \ FileKeys(batch) :
                         fileContentHandlers'[k] = fileContentHandlers[k]
                   /\ \A k \in Keys \ CommandKeys(batch) :
                         commandResultHandlers'[k] = commandResultHandlers[k]
                   /\ Reached(batch) = {0} => UNCHANGED callVars]_vars

\* A call timed out; a reply that carries its key when handleMessage gets it
\* was posted after the call had registered and handled after the timeout;
\* and another call, which had registered before that reply was posted, is
\* still waiting with its Pending Entry
C3_Witness ==
    \E i, o \in 1..Len(calls) :
        /\ i # o
        /\ calls[i].method \in KeyedMethods
        /\ calls[i].registered
        /\ calls[i].state = "rejected"
        /\ calls[i].error = TimeoutError(calls[i].method)
        /\ calls[o].state = "waiting"
        /\ Holder(calls[o].method, calls[o].key) = o
        /\ \E n \in 1..Len(handled) :
              /\ n > calls[i].settledAt
              /\ handled[n] > calls[i].since
              /\ handled[n] > calls[o].since
              /\ HandledEnvelope(n).type = ReplyTypeOf(calls[i].method)
              /\ Get(HandledEnvelope(n), KeyField(calls[i].method)) = calls[i].key

\* C4: with both clients connected and the relay reachable, an updateFile call
\* that passed the connected check and has settled has resolved with a success
\* result, and an updateCode request for its path was enqueued for Cline.
C4_UpdateResolves ==
    \A i \in 1..Len(calls) :
        LET call == calls[i]
        IN (call.method = "updateFile" /\ call.sent /\ Settled(call)) =>
              /\ call.state = "resolved"
              /\ call.success = JsTrue
              /\ \E j \in 1..Len(posted["cline"]) :
                    /\ posted["cline"][j].body.type = "updateCode"
                    /\ Get(posted["cline"][j].body, "path") = call.key

\* C5: with both clients connected and the relay reachable, an updateFile call
\* that passed the connected check rejects only with the error message of
\* Cline's write collaborator: not with a generic failure text and not with a
\* timeout.
C5_UpdateRejectsWithCollaboratorError ==
    \A i \in 1..Len(calls) :
        LET call == calls[i]
        IN (call.method = "updateFile" /\ call.sent /\ call.state = "rejected") =>
              call.error = CollaboratorError

----------------------------------------------------------------------------
(* Claims about the connection *)

\* The tick body in slot s of client c has met a failure it has not yet gone
\* on with: its ping or its drain was refused, or (Claude) handleMessage
\* throws on the batch its drain returned
Failing(c, s) ==
    \/ ticks[c][s].answer = "refused"
    \/ /\ c = "claude"
       /\ ticks[c][s].phase = "drain"
       /\ ticks[c][s].answer = "ok"
       /\ HandleAll(ClientState, ticks[c][s].batch).threw

\* The tick body in slot s of client c goes on with the failure it met: its
\* catch block runs
Fails(c, s) == Failing(c, s) /\ ticks'[c][s] # ticks[c][s]

\* C6: the step in which a tick body goes on with the failure it met (a
\* refused ping or drain, an error thrown by handleMessage) leaves the client's
\* connected flag false; the flag goes from false to true only in the step of
\* a connectToServer that goes on with an answer it got to GET /status, and
\* such an answer is got only from the reachable relay; and a connectToServer
\* that goes on with a failed request leaves the flag as it was.
C6_DisconnectedUntilProbeSucceeds ==
    [][\A c \in Parties :
          /\ \A s \in TickSlots : Fails(c, s) => ~connected'[c]
          /\ (~connected[c] /\ connected'[c]) =>
                /\ probes[c].ok > 0
                /\ probes'[c].ok = probes[c].ok - 1
          /\ probes'[c].ok > probes[c].ok =>
                /\ up
                /\ probes[c].inflight > 0
          /\ probes'[c].refused < probes[c].refused =>
                connected'[c] = connected[c]]_vars

\* A client that had connected lost the connection by a failed tick; its
\* reconnect probe was answered by the relay and has not yet gone on, and the
\* relay has stopped again
C6_Witness ==
    \E c \in Parties :
        /\ ~connected[c]
        /\ ~cleaned[c]
        /\ pollInterval[c] # 0
        /\ probes[c].ok > 0
        /\ ~up

\* C7: a client that lost its connection (it had connected, and was not
\* cleaned up) always has a reconnect probe delayed, in flight or answered.
C7_KeepsProbing ==
    \A c \in Parties :
        (~connected[c] /\ pollInterval[c] # 0) => ProbesPending(c) > 0

\* C9: getFile, updateFile or executeCommand called while the connected flag is
\* false rejects at once with the not-connected error, issues no request, starts
\* no timer and no checkInterval, and leaves both handler maps and the relay as
\* they were.
C9_DisconnectedCallFails ==
    [][\A method \in Methods, key \in Keys :
          (StartCall(method, key) /\ ~connected["claude"]) =>
              LET call == calls'[Len(calls')]
              IN /\ call.state = "rejected"
                 /\ call.error = NotConnectedError
                 /\ ~call.sent
                 /\ ~call.registered
                 /\ ~call.timer
                 /\ ~call.checker
                 /\ UNCHANGED <<fileContentHandlers, commandResultHandlers>>
                 /\ UNCHANGED relayVars]_vars

\* An updateFile call was refused as not connected and another call, made
\* while connected, went on to register
C9_Witness ==
    \E i, o \in 1..Len(calls) :
        /\ calls[i].method = "updateFile"
        /\ calls[i].state = "rejected"
        /\ calls[i].error = NotConnectedError
        /\ calls[o].registered

\* C10 as stated: every sendMessage, sendFile and notifyFileChanged made while
\* disconnected fails to its caller and enqueues nothing.
C10_DisconnectedSendFails ==
    \A n \in SendSlots :
        (sends[n].method # "none" /\ ~sends[n].connected) =>
            (sends[n].outcome = "rejected" /\ ~sends[n].enqueued)

\* C10 amended: sendMessage and sendFile made while disconnected fail at once
\* with the not-connected error, notifyFileChanged made while disconnected
\* returns without a failure, and none of them enqueues anything at the relay.
C10_DisconnectedSendEnqueuesNothing ==
    \A n \in SendSlots :
        (sends[n].method # "none" /\ ~sends[n].connected) =>
            /\ ~sends[n].enqueued
            /\ IF sends[n].method = "notifyFileChanged"
               THEN sends[n].outcome = "resolved"
               ELSE /\ sends[n].outcome = "rejected"
                    /\ sends[n].error = NotConnectedError

\* notifyFileChanged was called on the disconnected Cline client while the
\* relay was reachable
C10_Witness ==
    \E n \in SendSlots :
        /\ sends[n].method = "notifyFileChanged"
        /\ ~sends[n].connected
        /\ up
        /\ connected["claude"]

----------------------------------------------------------------------------
(* Claims about the handshake and the poll loop *)

\* C11: the handshake that the constructor starts never ends in an Error
\* thrown out of connectToServer with nobody to catch it (an unhandled
\* rejection): its failure is only reported.
C11_HandshakeFailureContained ==
    \A c \in Parties : ~unhandled[c]

\* C12 as stated: a client never has more than one connectToServer delayed, in
\* flight or answered; every step that takes the connected flag from true to
\* false delays exactly one; and a tick body that fails while the client is
\* disconnected delays none.
C12_OneProbeAtATime ==
    [][\A c \in Parties :
          /\ ProbesPending(c) <= 1
          /\ ProbesPending(c)' <= 1
          /\ (connected[c] /\ ~connected'[c]) =>
                /\ probes'[c].scheduled = probes[c].scheduled + 1
                /\ ProbesPending(c)' = ProbesPending(c) + 1
          /\ \A s \in TickSlots :
                (Fails(c, s) /\ ~connected[c]) => probes'[c] = probes[c]]_vars

\* C12 amended: a client never has more than one connectToServer delayed, in
\* flight or answered; the connected flag goes from true to false only when a
\* tick body fails or cleanup() is called; a tick body that fails while the
\* client is connected delays exactly one connectToServer, a tick body that
\* fails while it is disconnected delays none, and cleanup() delays none.
C12_OneProbePerFailedTick ==
    [][\A c \in Parties :
          /\ ProbesPending(c) <= 1
          /\ ProbesPending(c)' <= 1
          /\ \A s \in TickSlots :
                Fails(c, s) =>
                    probes'[c] = [probes[c] EXCEPT !.scheduled =
                                     IF connected[c] THEN @ + 1 ELSE @]
          /\ (connected[c] /\ ~connected'[c]) =>
                IF \E s \in TickSlots : Fails(c, s)
                THEN probes'[c].scheduled = probes[c].scheduled + 1
                ELSE /\ cleaned'[c]
                     /\ pollInterval'[c] = 0
                     /\ probes'[c] = probes[c]]_vars

\* Two tick bodies of a client run at once and both have met a failure, after
\* an earlier failure disconnected the client and delayed a connectToServer,
\* which has started and got its answer
C12_Witness ==
    \E c \in Parties :
        /\ ~connected[c]
        /\ ~cleaned[c]
        /\ probes[c].ok = 1
        /\ \A s \in TickSlots : Failing(c, s)

\* C13: a client never has two bodies of its poll tick running at once.
C13_TicksDoNotOverlap ==
    \A c \in Parties : Cardinality(Running(c)) <= 1

----------------------------------------------------------------------------
(* Claims about the life of a correlated call *)

\* C14: every getFile, updateFile or executeCommand call that passed the
\* connected check eventually resolves or rejects, and once it has, its
\* outcome (state, value, success, error) never changes again.
C14_AcceptedCallSettles ==
    /\ \A i \in 1..MaxCalls :
          (i <= Len(calls) /\ calls[i].sent) ~> (i <= Len(calls) /\ Settled(calls[i]))
    /\ [][\A i \in 1..Len(calls) :
             Settled(calls[i]) =>
                /\ calls'[i].state = calls[i].state
                /\ calls'[i].value = calls[i].value
                /\ calls'[i].success = calls[i].success
                /\ calls'[i].error = calls[i].error]_vars

\* C15: once a call has settled, its timer is no longer pending, its
\* checkInterval (updateFile) is no longer active and no handler-map entry
\* refers to it.
C15_SettledCallLeavesNothing ==
    \A i \in 1..Len(calls) :
        Settled(calls[i]) =>
            /\ ~calls[i].timer
            /\ ~calls[i].checker
            /\ \A k \in Keys :
                  fileContentHandlers[k] # i /\ commandResultHandlers[k] # i

----------------------------------------------------------------------------
(* Claims about notifications *)

IsNotification(envelope) == envelope.type \in NotificationTypes

\* The notifications Claude's handleMessage has been called with, in order
Notifications ==
    SelectSeq([n \in 1..Len(handled) |-> HandledEnvelope(n)], IsNotification)

\* The observers a notification's calls went to, in order
Called(entry) == [n \in 1..Len(entry.calls) |-> entry.calls[n].handler]

\* C16: every text or fileChanged envelope the Claude client has drained and
\* handed to handleMessage was given, once each and in order, to every
\* observer registered through onMessage when it was handled.
C16_NotificationsReachObservers ==
    /\ Len(delivered) = Len(Notifications)
    /\ \A n \in 1..Len(delivered) :
          Notifications[n].type \in {"text", "fileChanged"} =>
              /\ delivered[n].type = Notifications[n].type
              /\ Called(delivered[n]) = delivered[n].registered

----------------------------------------------------------------------------
(* Claims about serving requests *)

\* The reply type that answers a request type
ReplyType(type) ==
    CASE type = "fileRequest" -> "fileContent"
      [] type = "updateCode" -> "updateCodeResult"
      [] type = "executeCommand" -> "commandResult"

\* C17: when the collaborator throws while Cline serves a fileRequest,
\* updateCode or executeCommand envelope, the handler issues the POST of one
\* reply of the corresponding type that carries the collaborator's error
\* message, with success false for updateCodeResult and commandResult; the
\* body the reachable relay enqueues for Claude is that reply; and whatever
\* the POST gets, the handler's steps leave the connected flag, the reconnect
\* probes and the unhandled rejections as they were and the tick body running
\* or ended without a failure: it goes on with its next request or ends.
C17_CollaboratorFailureBecomesReply ==
    [][\A s \in TickSlots :
          LET tick == ticks["cline"][s]
              after == ticks'["cline"][s]
          IN /\ (/\ tick.phase = "handle"
                 /\ tick.batch[tick.at].type \in RequestTypes
                 /\ after.phase = "post"
                 /\ after.caught) =>
                   /\ after.reply.type = ReplyType(tick.batch[tick.at].type)
                   /\ after.reply.error = CollaboratorError
                   /\ after.reply.type # "fileContent" =>
                          after.reply.success = JsFalse
                   /\ UNCHANGED <<connected, probes, unhandled, relayVars>>
             /\ (tick.phase = "post" /\ tick.answer = "none" /\ after.answer = "ok") =>
                   /\ posted'["claude"] =
                         Append(posted["claude"], [body |-> tick.reply, ts |-> now])
                   /\ UNCHANGED <<connected, probes, unhandled>>
             /\ (tick.phase = "post" /\ tick.answer # "none" /\ after # tick) =>
                   /\ after.phase \in {"idle", "handle", "post"}
                   /\ (after.phase = "post" /\ after.at = tick.at) =>
                         (tick.answer = "refused" /\ ~tick.caught /\ after.caught)
                   /\ (after.phase = "post" /\ after.at # tick.at) =>
                         after.batch[after.at].type = "mcp_invoke"
                   /\ after.phase # "idle" =>
                         (after.at >= tick.at /\ after.batch = tick.batch)
                   /\ after.phase = "handle" => after.at > tick.at
                   /\ UNCHANGED <<connected, probes, unhandled, relayVars>>]_vars

\* Cline, still connected, has posted the error reply for a request whose
\* collaborator threw, and its tick body has gone on to the next request of
\* the batch
C17_Witness ==
    \E s \in TickSlots :
        LET tick == ticks["cline"][s]
        IN /\ tick.phase = "handle"
           /\ connected["cline"]
           /\ \E m \in 1..(tick.at - 1) :
                 /\ tick.batch[m].type \in RequestTypes
                 /\ \E j \in 1..Len(posted["claude"]) :
                       /\ posted["claude"][j].body.type = ReplyType(tick.batch[m].type)
                       /\ Get(posted["claude"][j].body, "error") = CollaboratorError

----------------------------------------------------------------------------
(* Claims about the relay's ping *)

\* C18: GET /ping?client=X for a party X answers 200 with messageCount the
\* length of X's mailbox and hasUpdates true exactly when that length is
\* positive; for a missing or unknown client it answers 400 with success
\* false; in both cases the mailboxes and everything drained stay as they were.
C18_PingCountsAndChangesNothing ==
    [][\A client \in PingClients :
          (response'.route = "GET /ping" /\ GetPing(client)) =>
              /\ UNCHANGED <<messages, drained, posted>>
              /\ IF client \in {"claude", "cline"}
                 THEN /\ response'.status = 200
                      /\ response'.body.success = JsTrue
                      /\ response'.body.messageCount = Len(messages[client])
                      /\ (response'.body.hasUpdates = JsTrue)
                            <=> (Len(messages[client]) > 0)
                      /\ response'.body.hasUpdates \in {JsTrue, JsFalse}
                 ELSE /\ response'.status = 400
                      /\ response'.body.success = JsFalse]_vars

\* A ping has just counted a mailbox that holds messages while the other
\* mailbox holds a different number
C18_Witness ==
    /\ response.route = "GET /ping"
    /\ response.status = 200
    /\ response.body.messageCount >= 1
    /\ Len(messages["claude"]) # Len(messages["cline"])


----------------------------------------------------------------------------
(* Claims about the request dispatch of the byte-stream server *)

\* The request the peer wrote as its k-th frame
RequestAt(k) == CHOOSE request \in Requests : RequestTexts[request] = written[k]

\* The methods the dispatch names
Recognized == {"initialize", "list_tools", "call_tool"}

\* The positions in stdout of the messages that carry the id
AnswersTo(id) ==
    {i \in 1..Len(stdout) : "id" \in DOMAIN stdout[i] /\ stdout[i].id = id}

\* C19: a request whose method is none of initialize, list_tools, call_tool is
\* answered by one error response that carries its id and the code -32601, and
\* the frame loop keeps working. Once every byte the peer wrote has been
\* delivered, in chunks of any sizes, each such request has exactly one message
\* with its id on stdout, an error with that code, and every frame written
\* after it has been decoded as written and, unless it is a call_tool request,
\* answered.
C19_UnsupportedMethodAnswered ==
    wire = << >> =>
        \A k \in 1..Len(written) :
            RequestAt(k).method \notin Recognized =>
                /\ Cardinality(AnswersTo(k)) = 1
                /\ \A i \in AnswersTo(k) :
                       /\ "error" \in DOMAIN stdout[i]
                       /\ stdout[i].error.code = -32601
                /\ \A j \in (k + 1)..Len(written) :
                       /\ j <= Len(frames)
                       /\ frames[j] = written[j]
                       /\ RequestAt(j).method # "call_tool" => AnswersTo(j) # {}

\* A message that is a result wrapping a text, or an error
IsTextResultOrError(message) ==
    \/ "error" \in DOMAIN message
    \/ /\ "result" \in DOMAIN message
       /\ "content" \in DOMAIN message.result
       /\ \A n \in 1..Len(message.result.content) :
              message.result.content[n].type = "text"

\* C20: every decoded frame that is a request with a recognized method is
\* answered by exactly one message carrying the request's id, and the answer
\* to a call_tool request, whatever its tool name and arguments, is a result
\* wrapping a text or an error.
C20_RecognizedRequestAnsweredOnce ==
    \A j \in 1..Len(frames) :
        LET parsed == Parse(frames[j])
        IN (~parsed.threw /\ Get(parsed.request, "method") \in Recognized) =>
               /\ Cardinality(AnswersTo(parsed.request.id)) = 1
               /\ parsed.request.method = "call_tool" =>
                      \A i \in AnswersTo(parsed.request.id) :
                          IsTextResultOrError(stdout[i])

----------------------------------------------------------------------------
(* Claims about the relay's enqueue *)

\* C25: a POST for one party appends exactly one envelope to the end of that
\* party's mailbox, stamped with the relay's clock at that moment whatever
\* timestamp the sender supplied, answers 200 with success true and leaves the
\* other party's mailbox as it was; and the timestamps of every mailbox are
\* non-decreasing in queue order.
C25_EnqueueAppendsWithRelayStamp ==
    /\ [][\A to \in Parties :
             Len(posted'[to]) = Len(posted[to]) + 1 =>
                 LET queue == messages'[to]
                     other == CHOOSE p \in Parties : p # to
                 IN /\ Len(queue) = Len(messages[to]) + 1
                    /\ SubSeq(queue, 1, Len(messages[to])) = messages[to]
                    /\ queue[Len(queue)].timestamp = now
                    /\ queue[Len(queue)].content =
                          Get(posted'[to][Len(posted'[to])].body, "content")
                    /\ messages'[other] = messages[other]
                    /\ response'.status = 200
                    /\ response'.body = [success |-> JsTrue]]_vars
    /\ [](\A p \in Parties :
             \A i, j \in 1..Len(messages[p]) :
                 i < j => messages[p][i].timestamp <= messages[p][j].timestamp)

\* A mailbox holds an envelope whose sender supplied a timestamp, enqueued
\* after an older envelope
C25_Witness ==
    \E p \in Parties :
        /\ Len(messages[p]) = 2
        /\ Len(posted[p]) = 2
        /\ "timestamp" \in DOMAIN posted[p][2].body
        /\ messages[p][1].timestamp < messages[p][2].timestamp
        /\ messages[p][2].timestamp # posted[p][2].body.timestamp

\* The properties of a posted body that carry its payload
PayloadFields == {"path", "content", "error", "success", "command", "output"}

\* C27: every envelope a drain returned has the type of the body that was
\* posted for it and every payload property of that body (path, content,
\* error, success, command, output) with the value posted.
C27_RelayPreservesPayload ==
    \A p \in Parties :
        \A j \in 1..Len(drained[p]) :
            LET body == posted[p][j].body
                envelope == drained[p][j]
            IN /\ envelope.type = Or(Get(body, "type"), "text")
               /\ \A f \in DOMAIN body \cap PayloadFields :
                      Get(envelope, f) = body[f]

----------------------------------------------------------------------------
(* Claims about the decoder's buffer *)

\* Where the leftmost header begins in str, 0 when str holds no whole header
HeaderAt(str) ==
    LET at == {i \in 1..Len(str) : MatchLengthAt(str, i) > 0}
    IN IF at = {} THEN 0 ELSE CHOOSE i \in at : \A k \in at : i <= k

\* C23: in a 'data' event that begins with no header read, a buffer without a
\* whole header is left as it is; when it holds a header, the header is removed
\* and, once as many characters as the header declares follow it, the message
\* extracted is exactly those characters, also when other characters precede
\* the header; with fewer characters after the header nothing is extracted.
\* When the event begins with a header read, the message is the first
\* characters of the buffer, as many as declared, once that many are there.
C23_DecoderCutsAtHeader ==
    [][Len(wire') < Len(wire) =>
          LET buf == buffer \o ToString(SubSeq(wire, 1, Len(wire) - Len(wire')))
              at == HeaderAt(buf)
              header == Match(buf)
              declared == ParseInt(header.digits)
              start == at + header.length
          IN IF contentLength # NullLength
             THEN IF Len(buf) < contentLength
                  THEN frames' = frames /\ buffer' = buf
                  ELSE /\ Len(frames') > Len(frames)
                       /\ frames'[Len(frames) + 1] = SubSeq(buf, 1, contentLength)
             ELSE IF at = 0
             THEN frames' = frames /\ buffer' = buf
             ELSE IF Len(buf) - start + 1 < declared
             THEN /\ frames' = frames
                  /\ contentLength' = declared
                  /\ buffer' = SubSeq(buf, start, Len(buf))
             ELSE /\ Len(frames') > Len(frames)
                  /\ frames'[Len(frames) + 1] = SubSeq(buf, start, start + declared - 1)]_vars

----------------------------------------------------------------------------
(* Claims about calls that share a key *)

\* C21: a key has at most one Pending Entry, that of a waiting call made with
\* it. When a second call with the key of a waiting call registers, the entry
\* becomes the second call's and the first call stays as it is; a tick body
\* that then hands handleMessage a batch holding a reply posted for the key
\* settles the second call, which holds the entry, removes the entry and
\* leaves the first call as it is; and a waiting call that does not hold the
\* entry of its key changes only when its own timeout fires, rejecting with
\* its timeout error.
C21_SecondCallReplacesEntry ==
    [][\A method \in KeyedMethods, key \in Keys :
          LET old == Holder(method, key)
              new == Holder(method, key)'
              Mine(i) == calls[i].method = method /\ calls[i].key = key
          IN /\ old # 0 => (Mine(old) /\ calls[old].state = "waiting")
             /\ \A s \in TickSlots, first \in 1..Len(calls) :
                   (/\ old # 0
                    /\ first # old
                    /\ Mine(first)
                    /\ calls[first].state = "waiting"
                    /\ Dispatching(s)
                    /\ HasReply(PostedBatch(ticks["claude"][s]), method, key)) =>
                       /\ Settled(calls'[old])
                       /\ new = 0
                       /\ calls'[first] = calls[first]
             /\ \A i \in 1..Len(calls) :
                   (Mine(i) /\ calls[i].state = "waiting") =>
                       /\ \A j \in 1..Len(calls) :
                             (Mine(j) /\ calls[j].state = "requesting"
                                 /\ calls'[j].state = "waiting") =>
                                  (new = j /\ calls'[i] = calls[i])
                       /\ (old # i /\ calls'[i] # calls[i]) =>
                              /\ calls[i].timer
                              /\ calls'[i].state = "rejected"
                              /\ calls'[i].error = TimeoutError(method)]_vars

\* C26: when the timeout of a waiting getFile or executeCommand call fires
\* while the entry of its key belongs to another call (a later call with the
\* same key, still waiting), the entry stays as it is.
C26_TimeoutRemovesOwnEntryOnly ==
    [][\A method \in KeyedMethods, key \in Keys :
          LET old == Holder(method, key)
              new == Holder(method, key)'
          IN \A i \in 1..Len(calls) :
                (/\ calls[i].method = method
                 /\ calls[i].key = key
                 /\ calls[i].state = "waiting"
                 /\ calls[i].timer
                 /\ calls'[i].state = "rejected"
                 /\ calls'[i].error = TimeoutError(method)
                 /\ old # i) =>
                    new = old]_vars

\* The calls of a method with a key whose request was issued
Asked(method, key) ==
    {i \in 1..Len(calls) :
        calls[i].method = method /\ calls[i].key = key /\ calls[i].sent}

\* C29: the poll loop never dispatches the reply to a getFile or executeCommand
\* request while the call is still before its registration: whenever a tick
\* body hands handleMessage a batch holding a reply that was posted, after the
\* request was issued, for a method and key for which one request only was
\* ever issued, that call has got past its request (it has registered its
\* Pending Entry, or its request failed).
C29_ReplyNotBeforeRegistration ==
    [][\A method \in KeyedMethods, key \in Keys, s \in TickSlots :
          LET tick == ticks["claude"][s]
          IN (Cardinality(Asked(method, key)) = 1 /\ Dispatching(s)) =>
                \A i \in Asked(method, key) :
                    (\E n \in 1..Len(tick.batch) :
                        /\ tick.from + n > calls[i].since
                        /\ DrainedBody(tick.from + n).type = ReplyTypeOf(method)
                        /\ Get(DrainedBody(tick.from + n), KeyField(method)) = key) =>
                            calls[i].state # "requesting"]_vars

\* The call of handleMessage that resolved call i: the first one, of those
\* made after the call settled or in the same batch, with a commandResult
\* envelope (0 when there is none)
ResolvingReply(i) ==
    LET hits == {n \in 1..Len(handled) :
                    /\ n > calls[i].settledAt
                    /\ HandledEnvelope(n).type = "commandResult"}
    IN IF hits = {} THEN 0 ELSE CHOOSE n \in hits : \A k \in hits : n <= k

\* C30: an executeCommand call that has resolved reports, as the success of
\* its result, the success flag of the commandResult reply that resolved it,
\* as the peer posted it.
C30_ResultSuccessIsReplySuccess ==
    \A i \in 1..Len(calls) :
        (calls[i].method = "executeCommand" /\ calls[i].state = "resolved") =>
            /\ ResolvingReply(i) # 0
            /\ calls[i].success =
                  Get(DrainedBody(handled[ResolvingReply(i)]), "success")

----------------------------------------------------------------------------
(* Claims about what a drain hands on *)

\* A tick body or a check body of Claude holds a batch its drain returned and
\* has not yet gone on with
BatchHeld ==
    \/ \E s \in TickSlots :
          ticks["claude"][s].phase = "drain" /\ ticks["claude"][s].answer = "ok"
    \/ \E i \in 1..Len(calls) : calls[i].checking.got # << >>

\* C22: a client drains its mailbox only in a tick body (or, for Claude, a
\* check body of updateFile) that has gone on from a ping which reported
\* pending messages, and every drain of Claude hands each envelope it
\* returned to handleMessage, once and in order: whenever no body holds a
\* batch it has not yet gone on with, handleMessage has been called with
\* exactly the envelopes the drains returned, in their order.
C22_EveryDrainedEnvelopeDispatched ==
    /\ [][\A c \in Parties :
             Len(drained'[c]) > Len(drained[c]) =>
                \/ \E s \in TickSlots :
                      ticks[c][s].phase = "drain" /\ ticks[c][s].answer = "none"
                \/ /\ c = "claude"
                   /\ \E i \in 1..Len(calls) : calls[i].checking.drain > 0]_vars
    /\ [](~BatchHeld => handled = [n \in 1..Len(drained["claude"]) |-> n])

----------------------------------------------------------------------------
(* Claims about cleanup *)

\* C28: once cleanup() has been called on a client, its connected flag is
\* false after every step, no tick body of it starts (issuing a ping) and no
\* tick body of it goes on from its ping to a drain.
C28_StaysStopped ==
    [][\A c \in Parties :
          cleaned[c] =>
              /\ ~connected'[c]
              /\ \A s \in TickSlots :
                    /\ ~(ticks[c][s].phase = "idle" /\ ticks'[c][s].phase = "ping")
                    /\ ~(ticks[c][s].phase = "ping" /\ ticks'[c][s].phase = "drain")]_vars

----------------------------------------------------------------------------
(* Claims about calls pending during an outage *)

\* C24: the step in which a tick body of the Claude client goes on with a
\* refused ping or drain leaves the calls, their timers and both handler maps
\* as they were, and changes of the connection only the connected flag, the
\* delayed connectToServer and the tick body itself. And no step rejects a
\* waiting call other than the firing of the call's own timeout, which
\* rejects it with its timeout error.
C24_PollFailureLeavesCallsAlone ==
    [][/\ \A s \in TickSlots :
             (/\ ticks["claude"][s].answer = "refused"
              /\ ticks'["claude"][s] # ticks["claude"][s]) =>
                 /\ UNCHANGED <<calls, fileContentHandlers, commandResultHandlers>>
                 /\ UNCHANGED <<pollInterval, intervals, unhandled, relayVars>>
                 /\ ~connected'["claude"]
                 /\ probes'["claude"] =
                       [probes["claude"] EXCEPT !.scheduled =
                           IF connected["claude"] THEN @ + 1 ELSE @]
       /\ \A i \in 1..Len(calls) :
             (calls[i].state = "waiting" /\ calls'[i].state = "rejected") =>
                 /\ calls[i].timer
                 /\ ~calls'[i].timer
                 /\ calls'[i].error \in {FileTimeoutError, CommandTimeoutError}
                 /\ calls'[i].error = TimeoutError(calls[i].method)]_vars

\* A failed tick has disconnected the Claude client while a getFile call is
\* waiting with its timer and its entry
C24_Witness ==
    \E i \in 1..Len(calls) :
        /\ calls[i].method = "getFile"
        /\ calls[i].state = "waiting"
        /\ calls[i].timer
        /\ fileContentHandlers[calls[i].key] = i
        /\ ~connected["claude"]
        /\ probes["claude"].scheduled = 1
        /\ ~up

----------------------------------------------------------------------------
(* Claims about the poll timer *)

\* C31: at every moment each client has at most one setInterval poll timer
\* active, an active timer is the one held in pollInterval, and a client whose
\* connected flag is true holds an active poll timer.
C31_OnePollTimer ==
    \A c \in Parties :
        /\ Cardinality(intervals[c]) <= 1
        /\ intervals[c] # {} => intervals[c] = {pollInterval[c]}
        /\ connected[c] => (pollInterval[c] # 0 /\ pollInterval[c] \in intervals[c])

\* A client that was cleaned up has connected again (a handshake answered
\* after cleanup()) and a body of its one poll timer is running
C31_Witness ==
    \E c \in Parties :
        /\ cleaned[c]
        /\ connected[c]
        /\ intervals[c] = {pollInterval[c]}
        /\ \E s \in TickSlots : ticks[c][s].phase # "idle"

====
